---- MODULE Spec2Model ----
(***************************************************************************)
(* A model of src/te/schedule/schedule_postproc_rewrite_for_tensor_core.cc *)
(* (the TensorCore rewrite pass of TVM): MMAMatcher, ScheduleAnalyser,     *)
(* BufferAnalyser, TensorCoreIRMutator and the driver                      *)
(* SchedulePostProcRewriteForTensorCore.                                   *)
(*                                                                         *)
(* Encoding of the IR.  A statement tree is a sequence of nodes in         *)
(* pre-order; node i carries `last`, the index of its last descendant, so  *)
(* the body of node i is the nodes i+1..last.  An index expression is an   *)
(* integer linear form over the variables of Atoms (a function from atoms  *)
(* to coefficients).  A tensor or buffer name is the sequence of its       *)
(* dot-separated segments: <<"A","shared","local">> is "A.shared.local".   *)
(* A pointer to an IR node is the position of the node; the null pointer   *)
(* is NullPtr.                                                             *)
(***************************************************************************)
EXTENDS Integers, Sequences, FiniteSets, TLC

VARIABLES
    inp,      \* the arguments of the call under study and its environment
    build,    \* the outcomes of the cases the code leaves open
    run,      \* 1: the pass on the input; 2: the pass on its own output
    pc,       \* position of the driver inside the current call
    stmt,     \* the statement handed to the current call
    mm,       \* MMAMatcher's fields
    sa,       \* ScheduleAnalyser's fields
    ba,       \* BufferAnalyser's fields
    out,      \* out[r]: what call r returned (NoStmt: nothing yet)
    stages    \* the stages the current call has run so far, in order

vars == <<inp, build, run, pc, stmt, mm, sa, ba, out, stages>>

-----------------------------------------------------------------------------
(* Bounds of the model *)

\* number of candidate multiply-accumulate stores in an input program
MaxMMA == 2
\* number of leading (non-tile) dimensions of the fragment buffers
MaxLead == 1

(* Program constants *)

\* threads of a warp: warp_threads_y_ = 32 / warp_threads_x
WarpSize == 32
\* index_visitor.scaling_factor_ = 16, and the default tile of get_tile_size_
DefaultScale == 16
\* shape->value % 16 != 0
FragAlign == 16

-----------------------------------------------------------------------------
(* Generic helpers: std::unordered_map as a function with a finite domain *)

EmptyMap == <<>>

Has(m, k) == k \in DOMAIN m

\* unordered_map::insert: keeps the mapping that is already there
MapInsert(m, k, v) ==
    IF k \in DOMAIN m THEN m
    ELSE [x \in DOMAIN m \cup {k} |-> IF x = k THEN v ELSE m[x]]

\* unordered_map::operator[] followed by an assignment
MapPut(m, k, v) == [x \in DOMAIN m \cup {k} |-> IF x = k THEN v ELSE m[x]]

Range(s) == {s[i] : i \in DOMAIN s}

Max2(a, b) == IF a >= b THEN a ELSE b

\* C++ integer division and remainder (truncation toward zero), b # 0
CDiv(a, b) ==
    IF (a >= 0 /\ b > 0) \/ (a <= 0 /\ b < 0) THEN
        (IF a >= 0 THEN a ELSE 0 - a) \div (IF b >= 0 THEN b ELSE 0 - b)
    ELSE 0 - ((IF a >= 0 THEN a ELSE 0 - a) \div (IF b >= 0 THEN b ELSE 0 - b))

CMod(a, b) == a - b * CDiv(a, b)

-----------------------------------------------------------------------------
(* Names *)

\* simplify_name: the text before the first "."
simplify_name(input) == IF Len(input) > 1 THEN <<input[1]>> ELSE input

-----------------------------------------------------------------------------
(* Index expressions: linear forms *)

ThreadX == "threadIdx.x"
ThreadY == "threadIdx.y"
\* the term (threadIdx.y / warp_y) * warp_y that ThreadIdxMutator builds
WarpY == "(threadIdx.y/w)*w"

Atoms == {ThreadX, ThreadY, WarpY, "ii", "jj", "kk"}

LinZero == [a \in Atoms |-> 0]
LinVar(v) == [a \in Atoms |-> IF a = v THEN 1 ELSE 0]
LinAdd(x, y) == [a \in Atoms |-> x[a] + y[a]]
LinSub(x, y) == [a \in Atoms |-> x[a] - y[a]]
LinScale(c, x) == [a \in Atoms |-> c * x[a]]
\* the VarNodes of an index expression after Simplify
VarsOf(x) == {a \in Atoms : x[a] # 0}

\* an extent that is no IntImmNode (as<IntImmNode>() returns nullptr)
NonConst == 0 - 1
IsImm(e) == e >= 0

\* Mul of two extents; a product with a non-constant factor is non-constant
ExtMul(a, b) == IF IsImm(a) /\ IsImm(b) THEN a * b ELSE NonConst

-----------------------------------------------------------------------------
(* Expressions *)

NullExpr == [kind |-> "null"]
Load(t, idx) == [kind |-> "load", tensor |-> t, indices |-> idx]
CastE(d, x) == [kind |-> "cast", dtype |-> d, value |-> x]
AddE(a, b) == [kind |-> "add", a |-> a, b |-> b]
MulE(a, b) == [kind |-> "mul", a |-> a, b |-> b]
FloatImm(v) == [kind |-> "fimm", v |-> v]
IntImmE(v) == [kind |-> "iimm", v |-> v]
VarE(n) == [kind |-> "var", name |-> n]
StringImm(v) == [kind |-> "simm", s |-> v]

\* unpack_type_cast
unpack_type_cast(input, target_type) ==
    IF input.kind # "cast" THEN input
    ELSE IF input.dtype = target_type THEN input.value
    ELSE NullExpr

\* the null pointer, and a pointer to the node reached from statement s by path p
NullPtr == [s |-> 0, p |-> "null"]
Ptr(s, p) == [s |-> s, p |-> p]

\* PrimExpr::as<T>(): the node when it is a T, nullptr otherwise
AsNode(e, kind, ptr) == IF e.kind = kind THEN ptr ELSE NullPtr

-----------------------------------------------------------------------------
(* Statements *)

NoStmt == <<[kind |-> "none"]>>

AttrStmt(key, node, value, last) ==
    [kind |-> "attr", key |-> key, node |-> node, value |-> value, last |-> last]
Realize(t, bounds, last) ==
    [kind |-> "realize", tensor |-> t, bounds |-> bounds, last |-> last]
ForStmt(v, mn, extent, fk, last) ==
    [kind |-> "for", var |-> v, min |-> mn, extent |-> extent, forkind |-> fk,
     last |-> last]
Store(t, idx, value, last) ==
    [kind |-> "store", tensor |-> t, indices |-> idx, value |-> value, last |-> last]
Bound(mn, ext) == [min |-> mn, extent |-> ext]

\* a scope string, as its dot-separated segments
ScopeLocal == <<"local">>
ScopeShared == <<"shared">>
\* "wmma." + role
Wmma(role) == <<"wmma", role>>

\* the node of a realize_scope attribute: a Tensor or an Operation object
TensorObj(t) == [obj |-> "tensor", name |-> t]
OpObj(t) == [obj |-> "op", name |-> t]

-----------------------------------------------------------------------------
(* MMAMatcher *)

\* MMAMatcher::BufferInfo
MBufferInfo(name, dtype, external, released) ==
    [name |-> name, dtype |-> dtype, external |-> external, released |-> released]

\* MMAMatcher::MMAMatcher: one external entry per caller-provided buffer
MMAMatcherInit(extern_buffer) ==
    [buf_map |-> [t \in DOMAIN extern_buffer |->
                    MBufferInfo(extern_buffer[t].name, extern_buffer[t].dtype,
                                TRUE, FALSE)],
     storage_scope |-> EmptyMap,
     mma_sync |-> EmptyMap,
     buf_name |-> EmptyMap,
     frag_reg |-> {},
     matched |-> FALSE,
     tensor_core_on |-> FALSE,
     open |-> {},
     err |-> "none"]

\* the matcher before it is constructed
MMAMatcherNone == MMAMatcherInit(EmptyMap)

\* BufferInfo::same_as
same_as(x, bi) ==
    /\ x.dtype = bi.dtype
    /\ x.name = bi.name
    /\ x.external = bi.external
    /\ x.released = bi.released

\* What dereferencing a null ProducerLoadNode* (op->producer) can do: the
\* process dies, or the load reads an object that is in no table.
NullDerefOutcomes == {"crash", "miss"}

\* check_local_buffer_: [ok, err, bi]
check_local_buffer_(st, e, nd) ==
    IF e.kind # "load" THEN
        [ok |-> FALSE, err |-> IF nd = "crash" THEN "crash" ELSE "none",
         bi |-> MBufferInfo(<<>>, "void", FALSE, FALSE)]
    ELSE IF ~Has(st.storage_scope, TensorObj(e.tensor)) THEN
        [ok |-> FALSE, err |-> "none", bi |-> MBufferInfo(<<>>, "void", FALSE, FALSE)]
    ELSE IF st.storage_scope[TensorObj(e.tensor)] # ScopeLocal THEN
        [ok |-> FALSE, err |-> "none", bi |-> MBufferInfo(<<>>, "void", FALSE, FALSE)]
    ELSE IF ~Has(st.buf_map, e.tensor) THEN
        [ok |-> FALSE, err |-> "none", bi |-> MBufferInfo(<<>>, "void", FALSE, FALSE)]
    ELSE [ok |-> ~st.buf_map[e.tensor].released, err |-> "none",
          bi |-> st.buf_map[e.tensor]]

AccumTypes == {"float32", "int32"}
InputTypesA == {"float16", "int8", "uint8", "int4", "uint4", "int1"}
\* the dtype test of the second factor (lines 209-211): its last two arms
\* read buffer_a
InputTypeB(dt_a, dt_b) ==
    \/ dt_b \in {"float16", "int8", "uint8", "int4"}
    \/ dt_a \in {"uint4", "int1"}

NoMatch(st) == [ok |-> FALSE, st |-> st]
Crashed(st) == [ok |-> FALSE, st |-> [st EXCEPT !.err = "crash"]]

\* the tail of mma_sync_match_, lines 215-222: record the match
RecordMatch(st, s, add, load_a_expr, load_b_expr, buffer_a, buffer_b, buffer_c) ==
    [ok |-> TRUE,
     st |-> [st EXCEPT
        !.frag_reg = @ \cup {buffer_c.name, buffer_a.name, buffer_b.name},
        !.buf_name = MapInsert(MapInsert(@, Ptr(s, "a"), buffer_a.name),
                               Ptr(s, "b"), buffer_b.name),
        !.mma_sync = MapInsert(@, s,
            <<[node |-> Ptr(s, "a"), expr |-> load_a_expr],
              [node |-> Ptr(s, "b"), expr |-> load_b_expr],
              [node |-> Ptr(s, "c"), expr |-> add.a]>>)]]

\* mma_sync_match_ for the store at position s: [ok, st]
mma_sync_match_(st, s, op, store_buffer, nd) ==
    LET add == op.value IN
    IF add.kind # "add" THEN NoMatch(st)
    ELSE
    LET c == check_local_buffer_(st, add.a, nd) IN
    IF c.err # "none" THEN Crashed(st)
    ELSE IF ~c.ok \/ ~same_as(c.bi, store_buffer) \/ c.bi.dtype \notin AccumTypes
    THEN NoMatch(st)
    ELSE
    LET mul == unpack_type_cast(add.b, c.bi.dtype) IN
    IF mul.kind # "mul" THEN NoMatch(st)
    ELSE
    LET load_a_expr == unpack_type_cast(mul.a, c.bi.dtype)
        a == check_local_buffer_(st, load_a_expr, nd)
    IN
    IF a.err # "none" THEN Crashed(st)
    ELSE IF ~a.ok \/ a.bi.dtype \notin InputTypesA THEN NoMatch(st)
    ELSE
    LET load_b_expr == unpack_type_cast(mul.b, c.bi.dtype)
        b == check_local_buffer_(st, load_b_expr, nd)
    IN
    IF b.err # "none" THEN Crashed(st)
    ELSE IF ~b.ok \/ ~InputTypeB(a.bi.dtype, b.bi.dtype) THEN NoMatch(st)
    ELSE RecordMatch(st, s, add, load_a_expr, load_b_expr, a.bi, b.bi, c.bi)

\* MMAMatcher::VisitStmt_(const AttrStmtNode*)
MatcherAttr(st, op) ==
    IF op.key = "pragma_tensor_core" THEN [st EXCEPT !.tensor_core_on = TRUE]
    ELSE IF op.key = "realize_scope"
    THEN [st EXCEPT !.storage_scope = MapPut(@, op.node, op.value.s)]
    ELSE st

\* line 112: if (mma_sync_match_(op, bi)) matched_ = true
SetMatched(r) == IF r.ok THEN [r.st EXCEPT !.matched = TRUE] ELSE r.st

\* a store visit that matches whether or not the pragma has been seen
MatcherStoreAlways(st, i, op, nd) ==
    IF ~Has(st.buf_map, op.tensor) THEN st
    ELSE IF st.buf_map[op.tensor].released THEN st
    ELSE SetMatched(mma_sync_match_(st, i, op, st.buf_map[op.tensor], nd))

\* MMAMatcher::VisitStmt_(const ProducerStoreNode*)
MatcherStore(st, i, op, nd) ==
    IF ~Has(st.buf_map, op.tensor) THEN st
    ELSE IF st.buf_map[op.tensor].released THEN st
    ELSE IF ~st.tensor_core_on THEN st
    ELSE SetMatched(mma_sync_match_(st, i, op, st.buf_map[op.tensor], nd))

\* MMAMatcher::VisitStmt_(const ProducerRealizeNode*), up to the visit of the
\* body: `open` holds the realize nodes whose entry is released after the body
MatcherRealize(st, i, op, dtype) ==
    IF Has(st.buf_map, op.tensor) THEN st
    ELSE [st EXCEPT
            !.buf_map = MapPut(@, op.tensor,
                MBufferInfo(op.tensor, dtype[op.tensor], FALSE, FALSE)),
            !.open = @ \cup {i}]

\* the node the matcher's walk visits after node i: the body of a realize
\* node is skipped when its tensor has a non-external entry (line 120)
MatcherNext(ir, i, st) ==
    IF /\ ir[i].kind = "realize"
       /\ Has(st.buf_map, ir[i].tensor)
       /\ ~st.buf_map[ir[i].tensor].external
    THEN ir[i].last + 1
    ELSE i + 1

\* the end of the bodies of the realize nodes that created an entry:
\* buf_map_[key].released = true
RECURSIVE ReleaseClosed(_, _, _)
ReleaseClosed(ir, st, next) ==
    LET done == {j \in st.open : ir[j].last < next} IN
    IF done = {} THEN st
    ELSE LET j == CHOOSE x \in done : TRUE IN
         ReleaseClosed(ir,
            [st EXCEPT !.buf_map[ir[j].tensor].released = TRUE,
                       !.open = @ \ {j}],
            next)

\* one node of the matcher's walk
MatcherVisit(ir, i, st, dtype, nd) ==
    IF ir[i].kind = "attr" THEN MatcherAttr(st, ir[i])
    ELSE IF ir[i].kind = "store" THEN MatcherStore(st, i, ir[i], nd)
    ELSE IF ir[i].kind = "realize" THEN MatcherRealize(st, i, ir[i], dtype)
    ELSE st

\* mma_matcher(stmt)
RECURSIVE MatcherWalk(_, _, _, _, _)
MatcherWalk(ir, i, st, dtype, nd) ==
    IF i > Len(ir) \/ st.err # "none" THEN st
    ELSE MatcherWalk(ir, MatcherNext(ir, i, st),
                     ReleaseClosed(ir, MatcherVisit(ir, i, st, dtype, nd),
                                   MatcherNext(ir, i, st)),
                     dtype, nd)

-----------------------------------------------------------------------------
(* BodyVisitor *)

\* a ReduceNode of a compute body: whether combiner->result[0] is an AddNode,
\* the number of results of the combiner, and the sources
ReduceE(combiner_add, n_results, source) ==
    [kind |-> "reduce", combiner_add |-> combiner_add, n_results |-> n_results,
     source |-> source]

BodyVisitorInit == [args |-> EmptyMap, tensorcore_candidate |-> FALSE]

\* the mul_0 / mul_1 test of BodyVisitor::VisitExpr_(const ReduceNode*)
IsMulSource(source) ==
    \/ unpack_type_cast(source, "float32").kind = "mul"
    \/ unpack_type_cast(source, "int32").kind = "mul"

RECURSIVE BodyVisit(_, _)
RECURSIVE BodyVisitSeq(_, _, _)
RECURSIVE BodyVisitSources(_, _, _)

\* BodyVisitor::VisitExpr: the two overrides and StmtExprVisitor's default walk
BodyVisit(e, bv) ==
    IF e.kind = "reduce" THEN
        IF ~e.combiner_add \/ e.n_results > 1 THEN bv
        ELSE BodyVisitSources(e.source, 1, bv)
    ELSE IF e.kind = "load" THEN
        LET b1 == BodyVisitSeq(e.indices, 1, bv) IN
        [b1 EXCEPT !.args = MapInsert(@, e.tensor, e.indices)]
    ELSE IF e.kind = "cast" THEN BodyVisit(e.value, bv)
    ELSE IF e.kind \in {"add", "mul"} THEN BodyVisit(e.b, BodyVisit(e.a, bv))
    ELSE bv

BodyVisitSeq(es, k, bv) ==
    IF k > Len(es) THEN bv ELSE BodyVisitSeq(es, k + 1, BodyVisit(es[k], bv))

BodyVisitSources(src, k, bv) ==
    IF k > Len(src) THEN bv
    ELSE IF ~IsMulSource(src[k]) THEN BodyVisitSources(src, k + 1, bv)
    ELSE BodyVisitSources(src, k + 1,
            BodyVisit(src[k], [bv EXCEPT !.tensorcore_candidate = TRUE]))

-----------------------------------------------------------------------------
(* ScheduleAnalyser *)

\* an output operation of the schedule
ComputeOp(name, axis, reduce_axis, body) ==
    [compute |-> TRUE, name |-> name, axis |-> axis, reduce_axis |-> reduce_axis,
     body |-> body]
PlaceholderOp(name) ==
    [compute |-> FALSE, name |-> name, axis |-> <<>>, reduce_axis |-> <<>>,
     body |-> <<>>]

\* ScheduleAnalyser::ScheduleAnalyser
ScheduleAnalyserInit(matcher) ==
    [matrix_abc |-> EmptyMap, matrix_major |-> EmptyMap,
     mma_sync |-> matcher.mma_sync, buf_name |-> matcher.buf_name,
     err |-> "none"]

ScheduleAnalyserNone == ScheduleAnalyserInit(MMAMatcherNone)

\* a role table that names the input read with (second-to-last axis,
\* reduction axis) matrix_a row_major and the one read with (last axis,
\* reduction axis) matrix_b col_major
RoleOfSwapped(var0, var1, axis_var0, axis_var1, reduce_axis_var) ==
    IF var0 = reduce_axis_var /\ var1 = axis_var1 THEN <<"matrix_a", "col_major">>
    ELSE IF var0 = reduce_axis_var /\ var1 = axis_var0 THEN <<"matrix_b", "row_major">>
    ELSE IF var0 = axis_var0 /\ var1 = reduce_axis_var THEN <<"matrix_a", "row_major">>
    ELSE IF var0 = axis_var1 /\ var1 = reduce_axis_var THEN <<"matrix_b", "col_major">>
    ELSE <<"", "">>

\* lines 313-326: the role and the layout of an input read with last two
\* indices (var0, var1); "" when no arm applies
RoleOf(var0, var1, axis_var0, axis_var1, reduce_axis_var) ==
    IF var0 = reduce_axis_var /\ var1 = axis_var1 THEN <<"matrix_a", "col_major">>
    ELSE IF var0 = reduce_axis_var /\ var1 = axis_var0 THEN <<"matrix_b", "row_major">>
    ELSE IF var0 = axis_var1 /\ var1 = reduce_axis_var THEN <<"matrix_a", "row_major">>
    ELSE IF var0 = axis_var0 /\ var1 = reduce_axis_var THEN <<"matrix_b", "col_major">>
    ELSE <<"", "">>

\* lines 302-329: the loop over body_visitor.args_ (its keys are distinct, and
\* each iteration inserts under its own key, so the order does not matter)
RECURSIVE IdentifyArgs(_, _, _, _)
IdentifyArgs(st, args, todo, compute) ==
    IF todo = {} THEN st
    ELSE
    LET name == CHOOSE n \in todo : TRUE
        a == args[name]
        n == Len(a)
        axis == compute.axis
    IN
    IF n < 2 THEN IdentifyArgs(st, args, todo \ {name}, compute)
    ELSE IF a[n - 1].kind # "var" \/ a[n].kind # "var"
    THEN IdentifyArgs(st, args, todo \ {name}, compute)
    ELSE
    LET r == RoleOf(a[n - 1].name, a[n].name, axis[Len(axis) - 1],
                    axis[Len(axis)], compute.reduce_axis[1])
    IN IdentifyArgs([st EXCEPT !.matrix_abc = MapInsert(@, name, r[1]),
                               !.matrix_major = MapInsert(@, name, r[2])],
                    args, todo \ {name}, compute)

\* lines 278-332: one output operation of the schedule
IdentifyOutput(st, output) ==
    IF ~output.compute THEN st
    ELSE IF Len(output.axis) < 2 \/ Len(output.reduce_axis) # 1 THEN st
    ELSE
    LET bv == BodyVisitSeq(output.body, 1, BodyVisitorInit) IN
    IF ~bv.tensorcore_candidate THEN st
    ELSE
    LET s1 == IdentifyArgs(st, bv.args, DOMAIN bv.args, output) IN
    [s1 EXCEPT !.matrix_abc = MapInsert(@, output.name, "accumulator"),
               !.matrix_major = MapInsert(@, output.name, "col_major")]

RECURSIVE IdentifyOutputs(_, _, _)
IdentifyOutputs(st, outputs, k) ==
    IF k > Len(outputs) THEN st
    ELSE IdentifyOutputs(IdentifyOutput(st, outputs[k]), outputs, k + 1)

\* What buf_name_.find(p)->second does when p is no key of buf_name_ (the
\* iterator is end()): end() of a std::unordered_map holds no node, the read
\* of ->second is a read of a std::string at a null address, and the process
\* dies.  No build reads a string there.
JunkName == <<"?">>
EndDerefOutcomes == {"crash"}

\* lines 336-339: the buffer name of operand k of the record of store s.
\* operands[k].as<CallNode>() is the node only when the operand is a CallNode;
\* the operands the matcher records are ProducerLoads, so it is nullptr, no
\* key of buf_name_, and the dereference of end() ends the process (rd).
OperandName(st, s, k, rd) ==
    LET load == AsNode(st.mma_sync[s][k].expr, "call", st.mma_sync[s][k].node) IN
    IF Has(st.buf_name, load) THEN [err |-> "none", name |-> st.buf_name[load]]
    ELSE [err |-> rd, name |-> JunkName]

\* lines 334-354: the consistency loop, over the records in iteration order
RECURSIVE CheckRecords(_, _, _, _)
CheckRecords(st, order, k, rd) ==
    IF k > Len(order) THEN [ret |-> TRUE, st |-> st]
    ELSE
    LET s == order[k]
        operands == st.mma_sync[s]
        n0 == OperandName(st, s, 1, rd)
        n1 == OperandName(st, s, 2, rd)
        input0 == simplify_name(n0.name)
        input1 == simplify_name(n1.name)
    IN
    IF n0.err # "none" \/ n1.err # "none"
    THEN [ret |-> FALSE, st |-> [st EXCEPT !.err = "crash"]]
    ELSE IF ~Has(st.matrix_abc, input0) \/ ~Has(st.matrix_abc, input1)
    THEN [ret |-> FALSE, st |-> st]
    ELSE IF st.matrix_abc[input0] = "matrix_a" /\ st.matrix_abc[input1] = "matrix_b"
    THEN [ret |-> TRUE, st |-> st]
    ELSE IF st.matrix_abc[input0] = "matrix_b" /\ st.matrix_abc[input1] = "matrix_a"
    THEN CheckRecords(
            [st EXCEPT !.mma_sync[s] = <<operands[2], operands[1], operands[3]>>],
            order, k + 1, rd)
    ELSE [ret |-> FALSE, st |-> st]

\* ScheduleAnalyser::MatrixIdentify: [ret, st]
MatrixIdentify(st, schedule, order, rd) ==
    CheckRecords(IdentifyOutputs(st, schedule, 1), order, 1, rd)

\* the orders in which a range-for can meet the keys of an unordered_map
RECURSIVE Orders(_)
Orders(keys) ==
    IF keys = {} THEN {<<>>}
    ELSE UNION {{<<k>> \o o : o \in Orders(keys \ {k})} : k \in keys}

-----------------------------------------------------------------------------
(* BufferAnalyser *)

\* struct Tile: m{-1}, n{-1}, k{-1}
TileUnset == -1
Tile(m, n, k) == [m |-> m, n |-> n, k |-> k]

\* BufferAnalyser::BufferInfo
BBufferInfo(name, dtype, strides, shape, bounds, external, released) ==
    [name |-> name, dtype |-> dtype, strides |-> strides, shape |-> shape,
     bounds |-> bounds, external |-> external, released |-> released]

\* BufferAnalyser::DimAlignInfo
DimAlignInfo(factor, offset) == [align_factor |-> factor, align_offset |-> offset]

\* BufferAnalyser::BufferAnalyser
BufferAnalyserInit(extern_buffer, schedule_analyser, matcher) ==
    [buf_map |-> [t \in DOMAIN extern_buffer |->
                    BBufferInfo(extern_buffer[t].name, extern_buffer[t].dtype,
                                extern_buffer[t].strides, extern_buffer[t].shape,
                                <<>>, TRUE, FALSE)],
     dim_align |-> EmptyMap,
     storage_scope |-> EmptyMap,
     matrix_abc |-> schedule_analyser.matrix_abc,
     matrix_major |-> schedule_analyser.matrix_major,
     frag_reg |-> matcher.frag_reg,
     strides |-> EmptyMap,
     frag_load |-> EmptyMap,
     frag_store |-> EmptyMap,
     thread_extent |-> EmptyMap,
     loop_scaling |-> EmptyMap,
     warp_tile |-> Tile(TileUnset, TileUnset, TileUnset),
     thread_tile |-> Tile(TileUnset, TileUnset, TileUnset),
     warp_threads_y |-> TileUnset,
     invalid |-> FALSE,
     open |-> {},
     err |-> "none"]

BufferAnalyserNone ==
    BufferAnalyserInit(EmptyMap, ScheduleAnalyserNone, MMAMatcherNone)

\* BufferInfo::RelIndex (the sizes agree: ICHECK_EQ is tested by the callers)
RelIndex(bi, args) ==
    IF Len(bi.bounds) # 0
    THEN [i \in 1..Len(bi.bounds) |-> LinSub(args[i], bi.bounds[i].min)]
    ELSE args

RelIndexOk(bi, args) == Len(bi.bounds) = 0 \/ Len(bi.bounds) = Len(args)

\* the product shape[from] * ... * shape[Len(shape)]
RECURSIVE ShapeProd(_, _)
ShapeProd(shape, from) ==
    IF from > Len(shape) THEN 1
    ELSE ExtMul(shape[from], ShapeProd(shape, from + 1))

\* lines 454-466 and 556-568: the strides of a buffer, from its shape when it
\* has none of its own
StridesOf(bi) ==
    IF Len(bi.strides) > 0 THEN bi.strides
    ELSE IF Len(bi.shape) = 0 THEN <<1>>
    ELSE [d \in 1..Len(bi.shape) |->
            IF d = Len(bi.shape) THEN 1 ELSE ShapeProd(bi.shape, d + 1)]

\* lines 441-451 and 543-553: the last two dimensions of the shape are
\* constants divisible by 16
ShapeQualified(shape) ==
    /\ Len(shape) >= 2
    /\ \A i \in {Len(shape) - 1, Len(shape)} :
          IsImm(shape[i]) /\ CMod(shape[i], FragAlign) = 0

\* IndexVisitor on one simplified index: every VarNode is inserted with the
\* current scaling factor
RECURSIVE IndexVisit(_, _, _)
IndexVisit(loop_scaling, vs, scaling_factor) ==
    IF vs = {} THEN loop_scaling
    ELSE LET v == CHOOSE x \in vs : TRUE IN
         IndexVisit(MapInsert(loop_scaling, v, scaling_factor), vs \ {v},
                    scaling_factor)

\* assign_or_check_ on one field of a tile: [ok, v]
assign_or_check_(dst, src) ==
    IF dst <= 0 THEN [ok |-> TRUE, v |-> src]
    ELSE IF dst = src THEN [ok |-> TRUE, v |-> dst]
    ELSE [ok |-> FALSE, v |-> dst]

\* ret &= assign_or_check_(&thread_tile_.f, v) on r = [ok, tile]
AssignField(r, f, v) ==
    [ok |-> r.ok /\ assign_or_check_(r.tile[f], v).ok,
     tile |-> [r.tile EXCEPT ![f] = assign_or_check_(r.tile[f], v).v]]

\* one `if` of lines 496-515: two assign_or_check_ calls when cond holds
AssignTwo(r, cond, f0, v0, f1, v1) ==
    IF cond THEN AssignField(AssignField(r, f0, v0), f1, v1) ELSE r

\* lines 496-515: tile_size[0], tile_size[1] into thread_tile_ by role and
\* layout, each `if` in turn: [ok, tile]
AssignThreadTile(tile, abc, major, s0, s1) ==
    AssignTwo(
      AssignTwo(
        AssignTwo(
          AssignTwo(
            AssignTwo([ok |-> TRUE, tile |-> tile],
                      abc = "matrix_a" /\ major = "col_major", "m", s0, "k", s1),
            abc = "matrix_a" /\ major = "row_major", "k", s0, "m", s1),
          abc = "matrix_b" /\ major = "col_major", "k", s0, "n", s1),
        abc = "matrix_b" /\ major = "row_major", "n", s0, "k", s1),
      abc = "accumulator", "m", s0, "n", s1)

Invalid(st) == [st EXCEPT !.invalid = TRUE]
CheckFailed(st) == [st EXCEPT !.err = "check"]

\* lines 516-519: if (!ret) { invalid_ = true; return; }
TileAssigned(st, r) ==
    IF r.ok THEN [st |-> [st EXCEPT !.thread_tile = r.tile], returned |-> FALSE]
    ELSE [st |-> Invalid([st EXCEPT !.thread_tile = r.tile]), returned |-> TRUE]

\* lines 473-522: a store into a fragment buffer: index scaling and thread
\* tile; `returned` tells that the handler has returned
FragmentStoreTile(st, op, bi) ==
    LET n == Len(op.indices) IN
    IF ~RelIndexOk(bi, op.indices) THEN [st |-> CheckFailed(st), returned |-> TRUE]
    ELSE IF n < 2 THEN [st |-> Invalid(st), returned |-> TRUE]
    ELSE
    LET rel_index == RelIndex(bi, op.indices) IN
    IF ~IsImm(bi.shape[n]) THEN [st |-> Invalid(st), returned |-> TRUE]
    ELSE
    LET ls1 == IndexVisit(st.loop_scaling, VarsOf(rel_index[n]), bi.shape[n])
        st1 == [st EXCEPT !.loop_scaling = ls1]
    IN
    IF ~IsImm(bi.shape[n - 1]) THEN [st |-> Invalid(st1), returned |-> TRUE]
    ELSE
    LET ls2 == IndexVisit(ls1, VarsOf(rel_index[n - 1]), bi.shape[n - 1])
        st2 == [st EXCEPT !.loop_scaling = ls2]
        input_name == simplify_name(bi.name)
    IN
    IF Has(st.matrix_abc, input_name) /\ Has(st.matrix_major, input_name) THEN
        TileAssigned(st2, AssignThreadTile(st.thread_tile, st.matrix_abc[input_name],
                                           st.matrix_major[input_name],
                                           bi.shape[n], bi.shape[n - 1]))
    ELSE [st |-> st2, returned |-> FALSE]

\* lines 575-588: a load from a fragment buffer: index scaling
FragmentLoadScale(st, op, bi) ==
    LET n == Len(op.indices) IN
    IF ~RelIndexOk(bi, op.indices) THEN CheckFailed(st)
    ELSE IF n < 2 THEN Invalid(st)
    ELSE
    LET rel_index == RelIndex(bi, op.indices)
        f1 == IF IsImm(bi.shape[n]) THEN bi.shape[n] ELSE DefaultScale
        f2 == IF IsImm(bi.shape[n - 1]) THEN bi.shape[n - 1] ELSE DefaultScale
        ls1 == IndexVisit(st.loop_scaling, VarsOf(rel_index[n]), f1)
        ls2 == IndexVisit(ls1, VarsOf(rel_index[n - 1]), f2)
    IN [st EXCEPT !.loop_scaling = ls2]

\* BufferAnalyser::VisitExpr_(const ProducerLoadNode*)
AnalyserLoad(st, op) ==
    IF ~Has(st.buf_map, op.tensor) THEN CheckFailed(st)
    ELSE
    LET bi == st.buf_map[op.tensor] IN
    IF bi.released THEN CheckFailed(st)
    ELSE IF Has(st.matrix_abc, op.tensor) /\ ~ShapeQualified(bi.shape) THEN Invalid(st)
    ELSE
    LET st1 == [st EXCEPT !.strides = MapInsert(@, op.tensor, StridesOf(bi))] IN
    IF bi.name \notin st.frag_reg THEN st1
    ELSE FragmentLoadScale(st1, op, bi)

\* StmtExprVisitor's walk of an expression: the loads in it, in visit order
RECURSIVE AnalyserExpr(_, _)
AnalyserExpr(st, e) ==
    IF st.err # "none" THEN st
    ELSE IF e.kind = "load" THEN AnalyserLoad(st, e)
    ELSE IF e.kind = "cast" THEN AnalyserExpr(st, e.value)
    ELSE IF e.kind \in {"add", "mul"} THEN AnalyserExpr(AnalyserExpr(st, e.a), e.b)
    ELSE st

\* lines 525-530: a store whose value is a load from a fragment
FragmentStore(st, i, op) ==
    IF op.value.kind = "load" /\ op.value.tensor \in st.frag_reg
    THEN [st EXCEPT !.frag_store = MapInsert(@, i, Load(op.tensor, op.indices))]
    ELSE st

\* lines 524-530 unless the handler has returned
FragmentStoreEnd(r, i, op) ==
    IF r.returned THEN r.st ELSE FragmentStore(r.st, i, op)

\* BufferAnalyser::VisitStmt_(const ProducerStoreNode*), after the walk of
\* the value
AnalyserStoreSelf(st, i, op) ==
    IF st.err # "none" THEN st
    ELSE IF ~Has(st.buf_map, op.tensor) THEN CheckFailed(st)
    ELSE
    LET bi == st.buf_map[op.tensor] IN
    IF bi.released THEN CheckFailed(st)
    ELSE IF Has(st.matrix_abc, op.tensor) /\ ~ShapeQualified(bi.shape) THEN Invalid(st)
    ELSE
    LET st1 == [st EXCEPT !.strides = MapInsert(@, op.tensor, StridesOf(bi))] IN
    IF bi.name \in st.frag_reg THEN
        FragmentStoreEnd(
            FragmentStoreTile(
                [st1 EXCEPT !.frag_load = MapInsert(@, i, Load(op.tensor, op.indices))],
                op, bi),
            i, op)
    ELSE FragmentStore(st1, i, op)

\* BufferAnalyser::VisitStmt_(const ProducerStoreNode*)
AnalyserStore(st, i, op) == AnalyserStoreSelf(AnalyserExpr(st, op.value), i, op)

\* floormod by a positive divisor
FloorMod(a, b) == a % b

\* lines 606-624: the strides of a realized tensor that has alignment hints,
\* from the last dimension to the first
RECURSIVE AlignedStrides(_, _, _, _)
AlignedStrides(shape, avec, dim, stride) ==
    IF dim = 0 THEN <<>>
    ELSE
    LET aligned ==
            IF dim <= Len(avec) /\ avec[dim].align_factor # 0 /\ IsImm(stride)
            THEN stride + FloorMod(avec[dim].align_factor + avec[dim].align_offset
                                   - FloorMod(stride, avec[dim].align_factor),
                                   avec[dim].align_factor)
            ELSE stride
    IN Append(AlignedStrides(shape, avec, dim - 1, ExtMul(aligned, shape[dim])),
              aligned)

\* BufferAnalyser::VisitStmt_(const ProducerRealizeNode*), up to the visit of
\* the body
AnalyserRealize(st, i, op, dtype) ==
    IF Has(st.buf_map, op.tensor) THEN
        IF ~st.buf_map[op.tensor].external THEN CheckFailed(st) ELSE st
    ELSE
    LET shape == [d \in 1..Len(op.bounds) |-> op.bounds[d].extent]
        strides == IF Has(st.dim_align, op.tensor) /\ Len(shape) # 0
                   THEN AlignedStrides(shape, st.dim_align[op.tensor], Len(shape), 1)
                   ELSE <<>>
    IN [st EXCEPT
          !.buf_map = MapPut(@, op.tensor,
              BBufferInfo(op.tensor, dtype[op.tensor], strides, shape,
                          op.bounds, FALSE, FALSE)),
          !.open = @ \cup {i}]

\* vinfo.resize(dim + 1); vinfo[dim] = {factor, offset}, dim counted from 0
SetDimAlign(vinfo, dim, factor, offset) ==
    [d \in 1..Max2(Len(vinfo), dim + 1) |->
        IF d = dim + 1 THEN DimAlignInfo(factor, offset)
        ELSE IF d <= Len(vinfo) THEN vinfo[d]
        ELSE DimAlignInfo(0, 0)]

\* BufferAnalyser::VisitStmt_(const AttrStmtNode*)
AnalyserAttr(st, op) ==
    IF op.key = "thread_extent" THEN
        IF op.value.kind = "iimm"
        THEN [st EXCEPT !.thread_extent = MapInsert(@, op.node, op.value.v)]
        ELSE st
    ELSE IF op.key = "realize_scope" THEN
        [st EXCEPT !.storage_scope = MapPut(@, op.node, op.value.s)]
    ELSE IF op.key = "buffer_dim_align" THEN
        IF op.value.kind # "tuple" THEN CheckFailed(st)
        ELSE
        [st EXCEPT !.dim_align = MapPut(@, op.node,
                    SetDimAlign(IF Has(st.dim_align, op.node)
                                THEN st.dim_align[op.node] ELSE <<>>,
                                op.value.args[1], op.value.args[2],
                                op.value.args[3]))]
    ELSE st

\* the walk of the arguments of an intrinsic call: the load under call_extern
RECURSIVE AnalyserArgs(_, _, _)
AnalyserArgs(st, args, k) ==
    IF k > Len(args) \/ st.err # "none" THEN st
    ELSE IF args[k].tag = "addr" THEN AnalyserArgs(AnalyserLoad(st, args[k].e), args, k + 1)
    ELSE AnalyserArgs(st, args, k + 1)

\* one node of the buffer analyser's walk; a rewritten store (an intrinsic
\* call under buffer_bind_scope) is walked for the loads of its arguments
AnalyserVisit(ir, i, st, dtype) ==
    IF ir[i].kind = "attr" THEN AnalyserAttr(st, ir[i])
    ELSE IF ir[i].kind = "store" THEN AnalyserStore(st, i, ir[i])
    ELSE IF ir[i].kind = "realize" THEN AnalyserRealize(st, i, ir[i], dtype)
    ELSE IF ir[i].kind = "bind" THEN AnalyserArgs(st, ir[i].call.args, 1)
    ELSE st

\* buffer_analyser(stmt)
RECURSIVE AnalyserWalk(_, _, _, _)
AnalyserWalk(ir, i, st, dtype) ==
    IF i > Len(ir) \/ st.err # "none" THEN st
    ELSE AnalyserWalk(ir, i + 1,
                      ReleaseClosed(ir, AnalyserVisit(ir, i, st, dtype), i + 1),
                      dtype)

\* What an integer division by zero can do: trap (x86), or give quotient 0
\* and so remainder a (the aarch64 build: sdiv yields 0, msub yields a)
DivZeroOutcomes == {"trap", "zero"}

\* supported_warp_tile_
SupportedTiles ==
    {Tile(16, 16, 16), Tile(8, 32, 16), Tile(32, 8, 16), Tile(8, 8, 32),
     Tile(8, 8, 128)}
supported_warp_tile_(warp_tile) == warp_tile \in SupportedTiles

\* BufferAnalyser::QualifiedForTensorCore: [ret, st]
QualifiedForTensorCore(st, dz) ==
    IF st.invalid THEN [ret |-> FALSE, st |-> st]
    ELSE IF ~Has(st.thread_extent, ThreadX) THEN [ret |-> FALSE, st |-> st]
    ELSE
    LET warp_threads_x == st.thread_extent[ThreadX]
        st1 == [st EXCEPT !.warp_tile.m = warp_threads_x * st.thread_tile.m]
    IN
    IF warp_threads_x = 0 /\ dz = "trap"
    THEN [ret |-> FALSE, st |-> [st1 EXCEPT !.err = "crash"]]
    ELSE
    LET wy == IF warp_threads_x = 0 THEN 0 ELSE CDiv(WarpSize, warp_threads_x)
        st2 == [st1 EXCEPT !.warp_threads_y = wy]
    IN
    IF ~Has(st.thread_extent, ThreadY) THEN [ret |-> FALSE, st |-> st2]
    ELSE
    LET ty == st.thread_extent[ThreadY] IN
    IF ty < wy THEN [ret |-> FALSE, st |-> st2]
    ELSE IF wy = 0 /\ dz = "trap"
    THEN [ret |-> FALSE, st |-> [st2 EXCEPT !.err = "crash"]]
    ELSE IF (IF wy = 0 THEN ty ELSE CMod(ty, wy)) # 0
    THEN [ret |-> FALSE, st |-> st2]
    ELSE
    LET st3 == [st2 EXCEPT !.warp_tile.n = wy * st.thread_tile.n,
                           !.warp_tile.k = st.thread_tile.k]
    IN [ret |-> supported_warp_tile_(st3.warp_tile), st |-> st3]

-----------------------------------------------------------------------------
(* ThreadIdxMutator *)

\* ThreadIdxMutator::VisitExpr_(const VarNode*) on every variable of an index:
\* threadIdx.x becomes 0, threadIdx.y becomes (threadIdx.y / warp_y) * warp_y
ThreadIdxIndex(x) ==
    [a \in Atoms |->
        IF a = ThreadX THEN 0
        ELSE IF a = ThreadY THEN 0
        ELSE IF a = WarpY THEN x[WarpY] + x[ThreadY]
        ELSE x[a]]

\* thread_idx_mutator(e) on a producer-load
ThreadIdxMutator(e) ==
    Load(e.tensor, [d \in 1..Len(e.indices) |-> ThreadIdxIndex(e.indices[d])])

-----------------------------------------------------------------------------
(* TensorCoreIRMutator *)

\* TensorCoreIRMutator::TensorCoreIRMutator
TensorCoreIRMutatorInit(schedule_analyser, buffer_analyser, dtype) ==
    [matrix_abc |-> schedule_analyser.matrix_abc,
     matrix_major |-> schedule_analyser.matrix_major,
     mma_sync |-> schedule_analyser.mma_sync,
     strides |-> buffer_analyser.strides,
     frag_reg |-> buffer_analyser.frag_reg,
     loop_scaling |-> buffer_analyser.loop_scaling,
     frag_load |-> buffer_analyser.frag_load,
     frag_store |-> buffer_analyser.frag_store,
     warp_tile |-> buffer_analyser.warp_tile,
     warp_threads_y |-> buffer_analyser.warp_threads_y,
     dtype |-> dtype,
     bounds |-> EmptyMap,
     err |-> "none"]

\* get_tile_size_, after its ICHECK: <<size0, size1>>.  The source is a row
\* of `if`s, each overwriting the 16 x 16 default; the last one that applies
\* wins, so they are read here from the last to the first.
get_tile_size_(abc, major, warp_tile) ==
    IF abc = "matrix_c" THEN <<warp_tile.n, warp_tile.m>>
    ELSE IF abc = "matrix_b" /\ major = "col_major" THEN <<warp_tile.n, warp_tile.k>>
    ELSE IF abc = "matrix_b" /\ major = "row_major" THEN <<warp_tile.k, warp_tile.n>>
    ELSE IF abc = "matrix_a" /\ major = "row_major" THEN <<warp_tile.m, warp_tile.k>>
    ELSE IF abc = "matrix_a" /\ major = "col_major" THEN <<warp_tile.k, warp_tile.m>>
    ELSE <<DefaultScale, DefaultScale>>

HasTileInfo(mu, name) == Has(mu.matrix_abc, name) /\ Has(mu.matrix_major, name)

TileSizeOf(mu, name) ==
    get_tile_size_(mu.matrix_abc[name], mu.matrix_major[name], mu.warp_tile)

\* arguments of the emitted calls
ArgHandle(name) == [tag |-> "handle", name |-> name]
ArgInt(v) == [tag |-> "int", v |-> v]
ArgIndex(e) == [tag |-> "index", e |-> e]
ArgAddr(e, warp_y) == [tag |-> "addr", e |-> e, warp_y |-> warp_y]
ArgExtent(v) == [tag |-> "extent", v |-> v]
ArgString(v) == [tag |-> "string", v |-> v]
ArgValue(e) == [tag |-> "value", e |-> e]

\* lines 1040-1044: elem_offset = sum of strides[i] * (indices[i] - min[i])
RECURSIVE ElemOffset(_, _, _, _)
ElemOffset(strides, indices, min_bound, k) ==
    IF k = 0 THEN LinZero
    ELSE LinAdd(ElemOffset(strides, indices, min_bound, k - 1),
                LinScale(strides[k], LinSub(indices[k], min_bound[k])))

\* whether add_buffer_bind_scope_ passes its ICHECKs for this load
BindOk(mu, pload) ==
    /\ Has(mu.bounds, pload.tensor)
    /\ Len(mu.bounds[pload.tensor]) >= 2
    /\ HasTileInfo(mu, simplify_name(pload.tensor))
    /\ Len(pload.indices) = Len(mu.bounds[pload.tensor])

\* add_buffer_bind_scope_: the buffer it fills in and the tvm_tuple of the
\* buffer_bind_scope attribute
BindBuffer(mu, pload) ==
    LET rb == mu.bounds[pload.tensor]
        n == Len(rb)
        tile_size == TileSizeOf(mu, simplify_name(pload.tensor))
        shape == [d \in 1..n |->
                    IF d = n - 1 THEN tile_size[1]
                    ELSE IF d = n THEN tile_size[2]
                    ELSE rb[d].extent]
        strides == [d \in 1..n |-> IF d = n THEN 1 ELSE ShapeProd(shape, d + 1)]
        min_bound == [d \in 1..n |-> rb[d].min]
    IN [tensor |-> pload.tensor,
        data |-> pload.tensor,
        name |-> pload.tensor,
        scope |-> Wmma(mu.matrix_abc[simplify_name(pload.tensor)]),
        dtype |-> mu.dtype[pload.tensor],
        strides |-> strides,
        shape |-> shape,
        data_alignment |-> 1,
        elem_offset |-> ElemOffset(strides, pload.indices, min_bound, n),
        offset_factor |-> 1,
        tuple |-> [d \in 1..n |-> [index |-> pload.indices[d], extent |-> shape[d]]]]

\* a rewritten store: the buffer_bind_scope attributes from the outermost to
\* the innermost, and the call the innermost one wraps
BindStmt(binds, call, last) ==
    [kind |-> "bind", binds |-> binds, call |-> call, last |-> last]
Call(name, args) == [name |-> name, args |-> args]

\* the fill, load and store calls under one buffer_bind_scope: the arguments
\* {buffer->data, warp_tile_.m, warp_tile_.n, warp_tile_.k,
\* buffer->elem_offset} and then `rest`
BindOne(buffer, name, warp_tile, rest, last) ==
    BindStmt(<<buffer>>,
             Call(name, <<ArgHandle(buffer.data), ArgInt(warp_tile.m),
                          ArgInt(warp_tile.n), ArgInt(warp_tile.k),
                          ArgIndex(buffer.elem_offset)>> \o rest),
             last)

MutFailed(mu) == [mu EXCEPT !.err = "check"]

\* lines 846-861: mma_sync_call
mma_sync_call(buffer_a, buffer_b, buffer) ==
    Call(IF buffer_a.dtype = "int1" /\ buffer_b.dtype = "int1"
         THEN "tvm_bmma_sync" ELSE "tvm_mma_sync",
         <<ArgHandle(buffer.data), ArgIndex(buffer.elem_offset),
           ArgHandle(buffer_a.data), ArgIndex(buffer_a.elem_offset),
           ArgHandle(buffer_b.data), ArgIndex(buffer_b.elem_offset),
           ArgHandle(buffer.data), ArgIndex(buffer.elem_offset)>>)

\* lines 863-871: call_add_c inside call_add_b inside the bind scope of ca
MMABind(buffer_a, buffer_b, buffer, last) ==
    BindStmt(<<buffer_a, buffer_b, buffer>>,
             mma_sync_call(buffer_a, buffer_b, buffer), last)

\* lines 833-871: a store of the mma_sync_ table: [mu, node]
MutateMMA(mu, i, op) ==
    IF \E k \in 1..3 : ~BindOk(mu, mu.mma_sync[i][k].expr)
    THEN [mu |-> MutFailed(mu), node |-> op]
    ELSE [mu |-> mu,
          node |-> MMABind(BindBuffer(mu, mu.mma_sync[i][1].expr),
                           BindBuffer(mu, mu.mma_sync[i][2].expr),
                           BindBuffer(mu, mu.mma_sync[i][3].expr), op.last)]

\* lines 876-887: a constant stored into a fragment
MutateFill(mu, i, op) ==
    LET pload == mu.frag_load[i] IN
    IF ~BindOk(mu, pload) THEN [mu |-> MutFailed(mu), node |-> op]
    ELSE
    [mu |-> mu,
     node |-> BindOne(BindBuffer(mu, pload), "tvm_fill_fragment", mu.warp_tile,
                      <<ArgValue(op.value)>>, op.last)]

\* lines 889-925: a load of a fragment from a buffer
MutateLoad(mu, i, op) ==
    LET pload == mu.frag_load[i]
        value == op.value
    IN
    IF value.kind # "load" THEN [mu |-> MutFailed(mu), node |-> op]
    ELSE IF ~Has(mu.strides, value.tensor) THEN [mu |-> MutFailed(mu), node |-> op]
    ELSE IF Len(mu.strides[value.tensor]) < 2 THEN [mu |-> MutFailed(mu), node |-> op]
    ELSE IF ~Has(mu.matrix_major, simplify_name(pload.tensor))
    THEN [mu |-> MutFailed(mu), node |-> op]
    ELSE IF mu.matrix_major[simplify_name(pload.tensor)] \notin {"col_major", "row_major"}
    THEN [mu |-> MutFailed(mu), node |-> op]
    ELSE IF ~BindOk(mu, pload) THEN [mu |-> MutFailed(mu), node |-> op]
    ELSE
    LET strides == mu.strides[value.tensor]
        stride == strides[Len(strides) - 1]
        src == ArgAddr(ThreadIdxMutator(value), mu.warp_threads_y)
    IN [mu |-> mu,
        node |-> BindOne(BindBuffer(mu, pload), "tvm_load_matrix_sync", mu.warp_tile,
                    <<src, ArgExtent(stride),
                      ArgString(mu.matrix_major[simplify_name(pload.tensor)])>>,
                    op.last)]

\* lines 928-953: a store of a fragment to a buffer
MutateFragStore(mu, i, op) ==
    IF ~Has(mu.strides, op.tensor) THEN [mu |-> MutFailed(mu), node |-> op]
    ELSE IF Len(mu.strides[op.tensor]) < 2 THEN [mu |-> MutFailed(mu), node |-> op]
    ELSE IF ~BindOk(mu, op.value) THEN [mu |-> MutFailed(mu), node |-> op]
    ELSE
    LET strides == mu.strides[op.tensor]
        stride == strides[Len(strides) - 1]
        dst == ArgAddr(ThreadIdxMutator(mu.frag_store[i]), mu.warp_threads_y)
    IN [mu |-> mu,
        node |-> BindOne(BindBuffer(mu, op.value), "tvm_store_matrix_sync",
                    mu.warp_tile,
                    <<dst, ArgExtent(stride), ArgString("col_major")>>, op.last)]

\* TensorCoreIRMutator::VisitStmt_(const ProducerStoreNode*): [mu, node]
MutateStore(mu, i, op) ==
    IF Has(mu.mma_sync, i) THEN MutateMMA(mu, i, op)
    ELSE IF Has(mu.frag_load, i) THEN
        IF op.value.kind \in {"fimm", "iimm"} THEN MutateFill(mu, i, op)
        ELSE MutateLoad(mu, i, op)
    ELSE IF Has(mu.frag_store, i) THEN MutateFragStore(mu, i, op)
    ELSE [mu |-> mu, node |-> op]

\* lines 964-970: the extent of a loop whose variable is in loop_scaling_
ScaledExtent(extent, scale_factor) ==
    IF IsImm(extent) THEN CDiv(extent, scale_factor) ELSE 1

\* TensorCoreIRMutator::VisitStmt_(const ForNode*): [mu, node]
MutateFor(mu, i, op) ==
    IF Has(mu.loop_scaling, op.var)
    THEN [mu |-> mu,
          node |-> ForStmt(op.var, op.min,
                           ScaledExtent(op.extent, mu.loop_scaling[op.var]),
                           op.forkind, op.last)]
    ELSE [mu |-> mu, node |-> op]

\* lines 796-804: the bounds of a fragment's realize, the last two cut to the
\* tile
NewBounds(bounds, new_extents) ==
    [d \in 1..Len(bounds) |->
        IF d = Len(bounds) - 1 THEN Bound(bounds[d].min, new_extents[1])
        ELSE IF d = Len(bounds) THEN Bound(bounds[d].min, new_extents[2])
        ELSE bounds[d]]

\* TensorCoreIRMutator::VisitStmt_(const ProducerRealizeNode*): [mu, node]
MutateRealize(mu, i, op) ==
    LET mu1 == [mu EXCEPT !.bounds = MapPut(@, op.tensor, op.bounds)] IN
    IF op.tensor \notin mu.frag_reg THEN [mu |-> mu1, node |-> op]
    ELSE IF ~HasTileInfo(mu, simplify_name(op.tensor)) \/ Len(op.bounds) < 2
    THEN [mu |-> MutFailed(mu1), node |-> op]
    ELSE [mu |-> mu1,
          node |-> Realize(op.tensor,
                           NewBounds(op.bounds,
                                     TileSizeOf(mu, simplify_name(op.tensor))),
                           op.last)]

\* TensorCoreIRMutator::VisitStmt_(const AttrStmtNode*): [mu, node]
MutateAttr(mu, i, op) ==
    IF op.key = "realize_scope" /\ op.node.obj = "op" /\ op.node.name \in mu.frag_reg
    THEN IF ~Has(mu.matrix_abc, simplify_name(op.node.name))
         THEN [mu |-> MutFailed(mu), node |-> op]
         ELSE [mu |-> mu,
               node |-> AttrStmt(op.key, op.node,
                                 StringImm(Wmma(mu.matrix_abc[simplify_name(op.node.name)])),
                                 op.last)]
    ELSE [mu |-> mu, node |-> op]

\* one node of the mutator's walk: [mu, node]
MutateNode(mu, i, op) ==
    IF op.kind = "store" THEN MutateStore(mu, i, op)
    ELSE IF op.kind = "for" THEN MutateFor(mu, i, op)
    ELSE IF op.kind = "realize" THEN MutateRealize(mu, i, op)
    ELSE IF op.kind = "attr" THEN MutateAttr(mu, i, op)
    ELSE [mu |-> mu, node |-> op]

\* TensorCoreIRMutator(...)(stmt), the visit of the nodes i..hi: [mu, stmt].
\* The rewrite of a node reads bounds_ of the realize nodes met before it, and
\* replaces the node in place.
RECURSIVE MutatorWalk(_, _, _, _, _)
RECURSIVE MutatorStep(_, _, _, _, _)
MutatorWalk(ir, i, hi, mu, moved) ==
    IF mu.err # "none" \/ i > hi THEN [mu |-> mu, stmt |-> ir]
    ELSE MutatorStep(ir, i, hi, MutateNode(mu, i, ir[i]), moved)

\* the walk goes on with the mutator's fields and the rewritten node.  The
\* visitor of a realize_scope attribute of a fragment's Operation visits the
\* body twice: in StmtExprMutator::VisitStmt_(op) (line 812) and in
\* this->VisitStmt(op->body) (line 823).  When the statement was moved into
\* the pass and is referenced nowhere else, the first visit writes the
\* rewritten body into the attribute node (copy on write finds the node
\* unique), so the second visit rewrites the rewritten body; otherwise
\* op->body still is the body the call was given and the second visit
\* yields what the first did.
MutatorStep(ir, i, hi, r, moved) ==
    IF /\ moved
       /\ ir[i].kind = "attr"
       /\ ir[i].key = "realize_scope"
       /\ ir[i].node.obj = "op"
       /\ ir[i].node.name \in r.mu.frag_reg
    THEN
      LET first == MutatorWalk([ir EXCEPT ![i] = r.node], i + 1, ir[i].last,
                               r.mu, moved)
          second == MutatorWalk(first.stmt, i + 1, ir[i].last, first.mu, moved)
      IN MutatorWalk(second.stmt, ir[i].last + 1, hi, second.mu, moved)
    ELSE MutatorWalk([ir EXCEPT ![i] = r.node], i + 1, hi, r.mu, moved)

-----------------------------------------------------------------------------
(* The inputs: scheduled matrix-multiply programs *)

\* the caller's tensors and the fragment tensors of the schedule
TA == <<"A">>
TB == <<"B">>
TC == <<"C">>
AF == <<"A", "shared", "local">>
BF == <<"B", "shared", "local">>
CF == <<"C", "local">>

Frag(x) == IF x = "a" THEN AF ELSE IF x = "b" THEN BF ELSE CF

\* extent of a leading dimension of a fragment and of the loop over it
LeadExtent == 2

\* the shapes of the forms a candidate store can take
Forms ==
    {"ab", "ba", "nocast", "castmul", "notadd", "c_notload", "swapadd",
     "b_notmul", "a_notload", "b_notload", "badcast_mul", "badcast_a",
     "badcast_b"}

\* the value of a candidate store of form f into the accumulator fragment
FormValue(f, la, lb, lc, dtc) ==
    IF f = "ab" THEN AddE(lc, MulE(CastE(dtc, la), CastE(dtc, lb)))
    ELSE IF f = "ba" THEN AddE(lc, MulE(CastE(dtc, lb), CastE(dtc, la)))
    ELSE IF f = "nocast" THEN AddE(lc, MulE(la, lb))
    ELSE IF f = "castmul" THEN AddE(lc, CastE(dtc, MulE(la, lb)))
    ELSE IF f = "notadd" THEN MulE(CastE(dtc, la), CastE(dtc, lb))
    ELSE IF f = "c_notload" THEN AddE(FloatImm(1), MulE(CastE(dtc, la), CastE(dtc, lb)))
    ELSE IF f = "swapadd" THEN AddE(MulE(CastE(dtc, la), CastE(dtc, lb)), lc)
    ELSE IF f = "b_notmul" THEN AddE(lc, CastE(dtc, la))
    ELSE IF f = "a_notload" THEN AddE(lc, MulE(FloatImm(2), CastE(dtc, lb)))
    ELSE IF f = "b_notload" THEN AddE(lc, MulE(CastE(dtc, la), FloatImm(2)))
    ELSE IF f = "badcast_mul" THEN AddE(lc, CastE("float64", MulE(la, lb)))
    ELSE IF f = "badcast_a" THEN AddE(lc, MulE(CastE("float64", la), CastE(dtc, lb)))
    ELSE AddE(lc, MulE(CastE(dtc, la), CastE("float64", lb)))

\* the indices of an access to fragment x: the leading dimensions are
\* indexed by jj, the last two by p.ix[x]
FragIndex(p, x) ==
    [d \in 1..(p.lead + 2) |->
        IF d <= p.lead THEN LinVar("jj") ELSE p.ix[x][d - p.lead]]

FragBounds(p, x) ==
    [d \in 1..(p.lead + 2) |->
        IF d <= p.lead THEN Bound(LinZero, LeadExtent)
        ELSE Bound(p.mn[x][d - p.lead], p.shp[x][d - p.lead])]

\* the nodes of the program in pre-order; `w` tells where the body of the
\* node ends: "all" at the end of the program, "body" and "kk" at the last
\* candidate store, "self" at the node itself, "next" at the node that
\* follows.  After the last candidate store, and so after the end of the
\* producer-realize of fragments A and B, the program of p.late = "store"
\* stores to fragment A, that of "load" loads from it, and that of "realize"
\* realizes it a second time.  p.align lists the buffer_dim_align hints
\* <<dim, align_factor, align_offset>> of fragment A, the first outermost;
\* the value of each is the call tvm_tuple(dim, factor, offset).  The
\* pragma_tensor_core attribute encloses the whole program (p.pragmaAt =
\* "top") or the first candidate store only ("first"), the later candidate
\* stores then being its later siblings.  p.obj tells which object the
\* realize_scope attributes carry: the Tensor, the Operation, or ("both") an
\* attribute for each.
ProtoNodes(p) ==
    LET la == Load(AF, FragIndex(p, "a"))
        lb == Load(BF, FragIndex(p, "b"))
        lc == Load(CF, FragIndex(p, "c"))
        scopeAttr(node, x) ==
            [w |-> IF x = "c" THEN "all" ELSE "body",
             n |-> AttrStmt("realize_scope", node, StringImm(p.scope[x]), 0)]
        scope(x) ==
            IF p.obj = "tensor" THEN <<scopeAttr(TensorObj(Frag(x)), x)>>
            ELSE IF p.obj = "op" THEN <<scopeAttr(OpObj(Frag(x)), x)>>
            ELSE <<scopeAttr(OpObj(Frag(x)), x), scopeAttr(TensorObj(Frag(x)), x)>>
        extent(v) == IF IsImm(v) THEN IntImmE(v) ELSE VarE("n")
        attr(key, node, value) ==
            [w |-> "all", n |-> AttrStmt(key, node, value, 0)]
        real(x) == [w |-> IF x = "c" THEN "all" ELSE "body",
                    n |-> Realize(Frag(x), FragBounds(p, x), 0)]
        store(t, idx, value) == [w |-> "self", n |-> Store(t, idx, value, 0)]
    IN  (IF p.hasTy THEN <<attr("thread_extent", ThreadY, extent(p.ty))>> ELSE <<>>)
     \o (IF p.hasTx THEN <<attr("thread_extent", ThreadX, extent(p.tx))>> ELSE <<>>)
     \o (IF p.pragma /\ p.pragmaAt = "top"
         THEN <<attr("pragma_tensor_core", "pragma", IntImmE(1))>> ELSE <<>>)
     \o scope("c") \o <<real("c")>>
     \o scope("a")
     \o [k \in 1..Len(p.align) |->
            [w |-> "body",
             n |-> AttrStmt("buffer_dim_align", AF,
                            [kind |-> "tuple", args |-> p.align[k]], 0)]]
     \o <<real("a")>>
     \o scope("b") \o <<real("b")>>
     \o <<[w |-> "body", n |-> ForStmt("jj", LinZero, LeadExtent, "serial", 0)],
          [w |-> "body", n |-> ForStmt("ii", LinZero, p.eii, "serial", 0)],
          store(CF, FragIndex(p, "c"), p.fill),
          store(TC, p.gix, lc),
          [w |-> "kk", n |-> ForStmt("kk", LinZero, p.ekk, "serial", 0)],
          store(AF, FragIndex(p, "a"), Load(TA, p.gix)),
          store(BF, FragIndex(p, "b"), Load(TB, p.gix))>>
     \o (IF p.pragma /\ p.pragmaAt = "first"
         THEN <<[w |-> "next",
                 n |-> AttrStmt("pragma_tensor_core", "pragma", IntImmE(1), 0)]>>
         ELSE <<>>)
     \o [k \in 1..Len(p.forms) |->
            store(CF, FragIndex(p, "c"), FormValue(p.forms[k], la, lb, lc, p.dt["c"]))]
     \o (IF p.late = "store"
         THEN <<store(AF, FragIndex(p, "a"), Load(TA, p.gix))>>
         ELSE IF p.late = "load" THEN <<store(TC, p.gix, la)>>
         ELSE IF p.late = "realize"
         THEN <<[w |-> "all", n |-> Realize(AF, FragBounds(p, "a"), 0)],
                store(TC, p.gix, lc)>>
         ELSE <<>>)

\* the statement handed to the pass
MkIR(p) ==
    LET proto == ProtoNodes(p)
        n == Len(proto)
        tail == IF p.late = "none" THEN 0 ELSE IF p.late = "realize" THEN 2 ELSE 1
    IN [i \in 1..n |->
          [proto[i].n EXCEPT !.last = IF proto[i].w = "self" THEN i
                                      ELSE IF proto[i].w = "next" THEN i + 1
                                      ELSE IF proto[i].w = "all" THEN n
                                      ELSE n - tail]]

\* an index of a read in the body of the output stage: the variable of that
\* name, or ("i+1") an expression that is no plain variable
ScheduleIndex(n) == IF n = "i+1" THEN AddE(VarE("i"), IntImmE(1)) ELSE VarE(n)

\* the schedule: one output stage C[i, j] = sum over k of
\* cast(A[p.sA]) * cast(B[p.sB])
MkSchedule(p) ==
    <<ComputeOp(TC, <<"i", "j">>, <<"k">>,
        <<ReduceE(TRUE, 1,
            <<MulE(CastE(p.dt["c"],
                         Load(TA, <<ScheduleIndex(p.sA[1]), ScheduleIndex(p.sA[2])>>)),
                   CastE(p.dt["c"],
                         Load(TB, <<ScheduleIndex(p.sB[1]), ScheduleIndex(p.sB[2])>>)))>>)>>)>>

\* the caller's buffers
MkExtern(p) ==
    [t \in {TA, TB, TC} |->
        [name |-> t,
         dtype |-> IF t = TA THEN p.dt["a"] ELSE IF t = TB THEN p.dt["b"] ELSE p.dt["c"],
         shape |-> p.gshape, strides |-> <<>>]]

MkDtype(p) ==
    [t \in {TA, TB, TC, AF, BF, CF} |->
        IF t \in {TA, AF} THEN p.dt["a"]
        ELSE IF t \in {TB, BF} THEN p.dt["b"] ELSE p.dt["c"]]

MkInput(p) ==
    [target |-> p.target, device |-> p.device, schedule |-> MkSchedule(p),
     extern |-> MkExtern(p), dtype |-> MkDtype(p), ir |-> MkIR(p),
     moved |-> p.moved]

\* the shape <<second-to-last, last>> that gives a fragment of this role and
\* layout the thread tile t
ShapeFor(abc, major, t) ==
    IF abc = "matrix_a" THEN
        IF major = "col_major" THEN <<t.k, t.m>> ELSE <<t.m, t.k>>
    ELSE IF abc = "matrix_b" THEN
        IF major = "col_major" THEN <<t.n, t.k>> ELSE <<t.k, t.n>>
    ELSE <<t.n, t.m>>

Shapes(t) ==
    [x \in {"a", "b", "c"} |->
        IF x = "a" THEN ShapeFor("matrix_a", "row_major", t)
        ELSE IF x = "b" THEN ShapeFor("matrix_b", "col_major", t)
        ELSE ShapeFor("accumulator", "col_major", t)]

LinII == LinVar("ii")
LinKK == LinVar("kk")
LinTX == LinVar(ThreadX)
LinTY == LinVar(ThreadY)

\* the program every family varies: threadIdx.x = 16, threadIdx.y = 2, thread
\* tile (1, 8, 16), A read as matrix_a row_major and B as matrix_b col_major
BaseInput ==
    [target |-> "cuda", device |-> TRUE,
     hasTy |-> TRUE, ty |-> 2, hasTx |-> TRUE, tx |-> 16,
     pragma |-> TRUE, pragmaAt |-> "top", obj |-> "tensor", late |-> "none",
     moved |-> FALSE,
     align |-> <<>>,
     scope |-> [x \in {"a", "b", "c"} |-> ScopeLocal],
     dt |-> [x \in {"a", "b", "c"} |-> IF x = "c" THEN "float32" ELSE "float16"],
     shp |-> Shapes(Tile(1, 8, 16)),
     lead |-> 0,
     gshape |-> <<16, 16>>,
     forms |-> <<"ab">>,
     sA |-> <<"j", "k">>, sB |-> <<"i", "k">>,
     ix |-> [x \in {"a", "b", "c"} |->
                IF x = "a" THEN <<LinZero, LinKK>>
                ELSE IF x = "b" THEN <<LinII, LinKK>>
                ELSE <<LinII, LinZero>>],
     mn |-> [x \in {"a", "b", "c"} |-> <<LinZero, LinZero>>],
     gix |-> <<LinAdd(LinScale(8, LinTY), LinII), LinAdd(LinTX, LinKK)>>,
     fill |-> FloatImm(0),
     eii |-> 8, ekk |-> 16]

\* sequences of candidate stores
FormSeqs(fs) == UNION {[1..n -> fs] : n \in 1..MaxMMA}

\* environment and gating
EnvInputs ==
    {[BaseInput EXCEPT !.target = t, !.device = d, !.pragma = g, !.obj = o,
                       !.moved = m]
        : t \in {"cuda", "llvm", "none"}, d \in BOOLEAN, g \in BOOLEAN,
          o \in {"tensor", "op", "both"}, m \in BOOLEAN}

\* thread extents and thread tiles
ThreadTiles ==
    {Tile(1, 8, 16), Tile(1, 2, 32), Tile(1, 2, 128), Tile(2, 4, 16),
     Tile(4, 2, 16), Tile(1, 8, 8)}
ThreadInputs ==
    {[BaseInput EXCEPT !.hasTx = x[1], !.tx = x[2], !.hasTy = y[1], !.ty = y[2],
                       !.shp = Shapes(t)]
        : x \in {<<FALSE, 0>>, <<TRUE, NonConst>>, <<TRUE, 0>>, <<TRUE, 4>>,
                 <<TRUE, 8>>, <<TRUE, 16>>, <<TRUE, 32>>, <<TRUE, 64>>},
          y \in {<<FALSE, 0>>, <<TRUE, 1>>, <<TRUE, 2>>, <<TRUE, 3>>, <<TRUE, 4>>,
                 <<TRUE, 8>>},
          t \in ThreadTiles}

\* the forms of the candidate stores
FormInputs == {[BaseInput EXCEPT !.forms = f] : f \in FormSeqs(Forms)}

\* the same stores in a program that has no pragma_tensor_core attribute
GateInputs ==
    {[BaseInput EXCEPT !.forms = f, !.pragma = FALSE] : f \in FormSeqs(Forms)}

\* a pragma_tensor_core attribute whose body is the first candidate store
SiblingInputs ==
    {[BaseInput EXCEPT !.forms = f, !.pragmaAt = "first"]
        : f \in FormSeqs({"ab", "ba", "notadd", "b_notmul"})}

\* the roles the schedule gives A and B, against the operand order of the stores
IndexPairs ==
    {<<"k", "j">>, <<"k", "i">>, <<"j", "k">>, <<"i", "k">>, <<"i", "j">>,
     <<"i+1", "k">>}
RoleInputs ==
    {[BaseInput EXCEPT !.sA = a, !.sB = b, !.forms = f,
                       !.shp = [x \in {"a", "b", "c"} |-> <<16, 16>>],
                       !.tx = 1, !.ty = 32]
        : a \in IndexPairs, b \in IndexPairs, f \in FormSeqs({"ab", "ba"})}

\* the variables that index the fragments, and the loops over them
IndexChoices ==
    {<<LinZero, LinZero>>, <<LinII, LinZero>>, <<LinZero, LinKK>>, <<LinII, LinKK>>,
     <<LinKK, LinII>>, <<LinAdd(LinII, LinTX), LinAdd(LinKK, LinTY)>>}
IndexInputs ==
    {[BaseInput EXCEPT !.ix = [x \in {"a", "b", "c"} |->
                                 IF x = "a" THEN a ELSE IF x = "b" THEN b ELSE c],
                       !.eii = e, !.lead = l]
        : a \in IndexChoices, b \in IndexChoices, c \in IndexChoices,
          e \in {8, 20, NonConst}, l \in 0..MaxLead}

\* realize regions that do not start at 0
MinInputs ==
    {[BaseInput EXCEPT !.mn = [x \in {"a", "b", "c"} |-> <<m, LinZero>>],
                       !.ix = [x \in {"a", "b", "c"} |-> <<i, LinKK>>],
                       !.lead = l, !.tx = q[1], !.ty = q[2]]
        : m \in {LinZero, LinScale(8, LinTY), LinTX},
          i \in {LinII, LinAdd(LinScale(8, LinTY), LinII), LinAdd(LinTX, LinII)},
          l \in 0..MaxLead,
          q \in {<<16, 2>>, <<8, 4>>, <<32, 1>>}}

\* element types, storage scopes and the shapes of the caller's buffers
TypeInputs ==
    {[BaseInput EXCEPT !.dt = [x \in {"a", "b", "c"} |->
                                 IF x = "a" THEN a ELSE IF x = "b" THEN b ELSE c],
                       !.shp = Shapes(t[1]), !.tx = t[2], !.ty = t[3]]
        : a \in {"float16", "int1", "uint4", "float32"},
          b \in {"float16", "int1", "uint4", "float32"},
          c \in {"float32", "int32", "float16"},
          t \in {<<Tile(1, 8, 16), 16, 2>>, <<Tile(1, 2, 128), 8, 4>>}}
ScopeInputs ==
    {[BaseInput EXCEPT !.scope = [x \in {"a", "b", "c"} |->
                                    IF x = "a" THEN a ELSE IF x = "b" THEN b ELSE c],
                       !.gshape = g, !.fill = v]
        : a \in {ScopeLocal, ScopeShared}, b \in {ScopeLocal, ScopeShared},
          c \in {ScopeLocal, ScopeShared},
          g \in {<<16, 16>>, <<16, 12>>, <<NonConst, 16>>, <<32, 64>>},
          v \in {FloatImm(0), IntImmE(0)}}

\* programs that refer to fragment A after its producer-realize has ended
LateInputs ==
    {[BaseInput EXCEPT !.late = l, !.forms = f, !.pragma = g]
        : l \in {"store", "load", "realize"}, f \in FormSeqs({"ab", "notadd"}),
          g \in BOOLEAN}

\* buffer_dim_align hints <<dim, align_factor, align_offset>>
AlignHints ==
    {<<d, h[1], h[2]>> : d \in 0..2,
                         h \in {<<0, 0>>, <<8, 0>>, <<8, 1>>, <<32, 8>>, <<8, 8>>}}

\* programs whose fragment A has one or two alignment hints
AlignInputs ==
    {[BaseInput EXCEPT !.align = a, !.lead = l]
        : a \in {<<h>> : h \in AlignHints} \cup (AlignHints \X AlignHints),
          l \in 0..MaxLead}

Params ==
    EnvInputs \cup ThreadInputs \cup FormInputs \cup RoleInputs \cup IndexInputs
    \cup MinInputs \cup TypeInputs \cup ScopeInputs \cup GateInputs
    \cup SiblingInputs \cup LateInputs \cup AlignInputs

Inputs == {MkInput(p) : p \in Params}

-----------------------------------------------------------------------------
(* The driver: SchedulePostProcRewriteForTensorCore *)

\* What the build and the process decide where the code leaves the outcome
\* open: nd (a null ProducerLoadNode* is dereferenced), rd (an end() iterator
\* is dereferenced), dz (an integer is divided by zero), order (the iteration
\* order of mma_sync_).  Each is fixed the first time the code meets the case
\* and is the same in every later call of the pass on the same statement.
Unset == "unset"
BuildInit == [nd |-> Unset, rd |-> Unset, dz |-> Unset, order |-> <<>>]
Outcomes(fixed, all) == IF fixed = Unset THEN all ELSE {fixed}
OrderChoices(fixed, keys) == IF fixed = <<>> THEN Orders(keys) ELSE {fixed}

\* line 1087: target.defined() && target->kind->name != "cuda"
TargetMismatch(target) == target # "none" /\ target # "cuda"

\* a device gate that lets every call through
NoDeviceAPINever(device) == FALSE

\* line 1094: api == nullptr
NoDeviceAPI(device) == ~device

\* one entry of the log of the stages a call has run: the stage and whether
\* the driver went on after it
Stage(name, ok) == [name |-> name, ok |-> ok]

\* where the call ends when a stage did not return normally: an ICHECK
\* throws, a trap kills the process
Aborted(err) == IF err = "check" THEN "threw" ELSE "crashed"

\* a return of the statement with its last node repeated
ReturnRepeated ==
    /\ out' = [out EXCEPT ![run] =
                  Append(stmt, [stmt[Len(stmt)] EXCEPT !.last = Len(stmt) + 1])]
    /\ pc' = "done"

\* return stmt: the call returns what it was given
ReturnInput ==
    /\ out' = [out EXCEPT ![run] = stmt]
    /\ pc' = "done"

\* lines 1086-1089: the target gate
CheckTarget ==
    /\ pc = "start"
    /\ IF TargetMismatch(inp.target)
       THEN ReturnInput
       ELSE pc' = "target_ok" /\ out' = out
    /\ UNCHANGED <<inp, build, run, stmt, mm, sa, ba, stages>>

\* lines 1092-1096: the device gate
CheckDevice ==
    /\ pc = "target_ok"
    /\ IF NoDeviceAPI(inp.device)
       THEN ReturnInput
       ELSE pc' = "device_ok" /\ out' = out
    /\ UNCHANGED <<inp, build, run, stmt, mm, sa, ba, stages>>

\* lines 1098-1102: MMAMatcher
RunMMAMatcher ==
    /\ pc = "device_ok"
    /\ \E nd \in Outcomes(build.nd, NullDerefOutcomes) :
       \E m \in {MatcherWalk(stmt, 1, MMAMatcherInit(inp.extern), inp.dtype, nd)} :
         /\ mm' = m
         /\ build' = [build EXCEPT !.nd =
                IF MatcherWalk(stmt, 1, MMAMatcherInit(inp.extern), inp.dtype,
                               "crash").err = "crash"
                THEN nd ELSE @]
         /\ stages' = Append(stages, Stage("MMAMatcher", m.err = "none" /\ m.matched))
         /\ IF m.err # "none" THEN pc' = Aborted(m.err) /\ out' = out
            ELSE IF ~m.matched THEN ReturnInput
            ELSE pc' = "matched" /\ out' = out
    /\ UNCHANGED <<inp, run, stmt, sa, ba>>

\* lines 1104-1107: ScheduleAnalyser
RunScheduleAnalyser ==
    /\ pc = "matched"
    /\ \E order \in OrderChoices(build.order, DOMAIN mm.mma_sync) :
       \E rd \in Outcomes(build.rd, EndDerefOutcomes) :
       \E r \in {MatrixIdentify(ScheduleAnalyserInit(mm), inp.schedule, order, rd)} :
         /\ sa' = r.st
         /\ build' = [build EXCEPT !.order = order, !.rd = rd]
         /\ stages' = Append(stages,
                Stage("ScheduleAnalyser", r.st.err = "none" /\ r.ret))
         /\ IF r.st.err # "none" THEN pc' = Aborted(r.st.err) /\ out' = out
            ELSE IF ~r.ret THEN ReturnInput
            ELSE pc' = "identified" /\ out' = out
    /\ UNCHANGED <<inp, run, stmt, mm, ba>>

\* lines 1109-1110: BufferAnalyser
RunBufferAnalyser ==
    /\ pc = "identified"
    /\ \E b \in {AnalyserWalk(stmt, 1, BufferAnalyserInit(inp.extern, sa, mm),
                              inp.dtype)} :
       /\ ba' = b
       /\ stages' = Append(stages, Stage("BufferAnalyser", b.err = "none"))
       /\ pc' = IF b.err # "none" THEN Aborted(b.err) ELSE "analysed"
    /\ UNCHANGED <<inp, build, run, stmt, mm, sa, out>>

\* lines 1111-1113: the qualification gate
RunQualifiedForTensorCore ==
    /\ pc = "analysed"
    /\ \E dz \in Outcomes(build.dz, DivZeroOutcomes) :
       \E r \in {QualifiedForTensorCore(ba, dz)} :
         /\ ba' = r.st
         /\ build' = [build EXCEPT !.dz =
                IF QualifiedForTensorCore(ba, "trap").st.err = "crash"
                THEN dz ELSE @]
         /\ stages' = Append(stages,
                Stage("QualifiedForTensorCore", r.st.err = "none" /\ r.ret))
         /\ IF r.st.err # "none" THEN pc' = Aborted(r.st.err) /\ out' = out
            ELSE IF ~r.ret THEN ReturnInput
            ELSE pc' = "qualified" /\ out' = out
    /\ UNCHANGED <<inp, run, stmt, mm, sa>>

\* line 1115: TensorCoreIRMutator
RunTensorCoreIRMutator ==
    /\ pc = "qualified"
    /\ \E r \in {MutatorWalk(stmt, 1, Len(stmt),
                             TensorCoreIRMutatorInit(sa, ba, inp.dtype),
                             inp.moved)} :
       /\ stages' = Append(stages, Stage("TensorCoreIRMutator", r.mu.err = "none"))
       /\ IF r.mu.err # "none" THEN pc' = Aborted(r.mu.err) /\ out' = out
          ELSE pc' = "done" /\ out' = [out EXCEPT ![run] = r.stmt]
    /\ UNCHANGED <<inp, build, run, stmt, mm, sa, ba>>

\* the pass is called again, on what it returned, in the same environment
Rerun ==
    /\ pc = "done"
    /\ run = 1
    /\ run' = 2
    /\ stmt' = out[1]
    /\ pc' = "start"
    /\ mm' = MMAMatcherNone
    /\ sa' = ScheduleAnalyserNone
    /\ ba' = BufferAnalyserNone
    /\ stages' = <<>>
    /\ UNCHANGED <<inp, build, out>>

\* The steps of a call.  RunBufferAnalyser, RunQualifiedForTensorCore and
\* RunTensorCoreIRMutator are the driver's lines 1109-1115; they start from
\* pc = "identified", which RunScheduleAnalyser never sets: every record of
\* mma_sync_ is looked up at lines 336-339 and the lookup ends the process
\* (NeverIdentified), so the three steps are no steps of any behaviour.
Next ==
    \/ CheckTarget
    \/ CheckDevice
    \/ RunMMAMatcher
    \/ RunScheduleAnalyser
    \/ Rerun

Init ==
    /\ inp \in Inputs
    /\ build = BuildInit
    /\ run = 1
    /\ pc = "start"
    /\ stmt = inp.ir
    /\ mm = MMAMatcherNone
    /\ sa = ScheduleAnalyserNone
    /\ ba = BufferAnalyserNone
    /\ out = <<NoStmt, NoStmt>>
    /\ stages = <<>>

Spec == Init /\ [][Next]_vars

-----------------------------------------------------------------------------
(* Properties *)

\* the current call has run stage `name`, and the driver went on after it
Passed(name) == \E k \in DOMAIN stages : stages[k].name = name /\ stages[k].ok
\* the current call has run stage `name`
Ran(name) == \E k \in DOMAIN stages : stages[k].name = name

\* the statement the current call was given
GivenStmt == IF run = 1 THEN inp.ir ELSE out[1]

\* the current call has ended: it returned, an ICHECK threw, or the process
\* died
Ended == pc \in {"done", "threw", "crashed"}

\* no call gets past the schedule analyser: the steps after it never start
NeverIdentified == pc \notin {"identified", "analysed", "qualified"}

\* the nodes of the statement call r returned that are emitted mma calls
IsMMACall(node) ==
    node.kind = "bind" /\ node.call.name \in {"tvm_mma_sync", "tvm_bmma_sync"}

\* the scope of the buffer bound for the handle that is argument k of the call
BoundScope(node, k) ==
    (CHOOSE b \in Range(node.binds) : b.data = node.call.args[k].name).scope

\* the role the schedule analyser's table gives the tensor an operand loads
OperandRole(st, e) ==
    IF Has(st.matrix_abc, simplify_name(e.tensor))
    THEN st.matrix_abc[simplify_name(e.tensor)] ELSE "unclassified"

\* the roles the role table gives the two inputs of the record of store s
RolePair(st, s) ==
    <<OperandRole(st, st.mma_sync[s][1].expr), OperandRole(st, st.mma_sync[s][2].expr)>>

\* C1: in every emitted tvm_mma_sync / tvm_bmma_sync call the buffer bound as
\* operand A (third argument) has scope wmma.matrix_a and the buffer bound as
\* operand B (fifth argument) has scope wmma.matrix_b; when MatrixIdentify
\* has returned true every MMA record has operand[0] classified matrix_a and
\* operand[1] classified matrix_b; and when some record has an unclassified
\* input, or a pair of roles that is neither (matrix_a, matrix_b) nor
\* (matrix_b, matrix_a), MatrixIdentify returns false and the call returns
\* the statement it was given.
C1_OperandCanonical ==
    /\ \A r \in 1..2 : \A i \in DOMAIN out[r] :
          IsMMACall(out[r][i]) =>
            /\ BoundScope(out[r][i], 3) = Wmma("matrix_a")
            /\ BoundScope(out[r][i], 5) = Wmma("matrix_b")
    /\ Passed("ScheduleAnalyser") =>
          \A s \in DOMAIN sa.mma_sync :
            RolePair(sa, s) = <<"matrix_a", "matrix_b">>
    /\ (/\ Ended
        /\ Ran("ScheduleAnalyser")
        /\ \E s \in DOMAIN sa.mma_sync :
              RolePair(sa, s) \notin {<<"matrix_a", "matrix_b">>,
                                      <<"matrix_b", "matrix_a">>})
       => (pc = "done" /\ ~stages[2].ok /\ out[run] = GivenStmt)

\* the stages of one call, in the order the driver runs them
StageOrder ==
    <<"MMAMatcher", "ScheduleAnalyser", "BufferAnalyser",
      "QualifiedForTensorCore", "TensorCoreIRMutator">>

\* C2: the stages run in the order MMAMatcher, ScheduleAnalyser,
\* BufferAnalyser (with its qualification), TensorCoreIRMutator; a stage runs
\* only if the gates before it were passed and every earlier stage succeeded;
\* no analysis stage changes the statement; the mutator runs only when
\* something matched, MatrixIdentify and QualifiedForTensorCore returned true
\* and the invalid flag is clear; and a call that ends without running the
\* mutator returns exactly the statement it was given.
C2_StagesInOrder ==
    /\ Len(stages) <= Len(StageOrder)
    /\ \A k \in DOMAIN stages :
          /\ stages[k].name = StageOrder[k]
          /\ k < Len(stages) => stages[k].ok
    /\ stages # <<>> => inp.device /\ ~TargetMismatch(inp.target)
    /\ stmt = GivenStmt
    /\ Ran("TensorCoreIRMutator") =>
          /\ mm.matched
          /\ ~ba.invalid
          /\ supported_warp_tile_(ba.warp_tile)
    /\ (pc = "done" /\ ~Ran("TensorCoreIRMutator")) => out[run] = GivenStmt

\* C2 witness: a call in which the matcher matched nothing has ended after
\* that one stage and has returned the statement it was given
C2_Witness ==
    /\ pc = "done"
    /\ run = 1
    /\ Len(stages) = 1
    /\ stages[1].name = "MMAMatcher"
    /\ ~stages[1].ok
    /\ ~mm.matched
    /\ out[1] = inp.ir

\* C3: whenever the current target is not cuda (a defined non-cuda target, or
\* no current target at all) the call returns the statement it was given.
C3_TargetGate ==
    (inp.target # "cuda" /\ Ended) => (pc = "done" /\ out[run] = GivenStmt)

\* the statement has no attribute node with key pragma_tensor_core
NoPragma(ir) ==
    \A i \in DOMAIN ir : ~(ir[i].kind = "attr" /\ ir[i].key = "pragma_tensor_core")

\* C4: when the statement given to a call has no attribute node with key
\* pragma_tensor_core, the matcher's matched flag stays false, no store is
\* recorded (the MMA table, the load-name map and the fragment set stay
\* empty), no later stage runs, and the call returns the statement it was
\* given.
C4_MatchGate ==
    NoPragma(stmt) =>
        /\ ~mm.matched
        /\ ~mm.tensor_core_on
        /\ DOMAIN mm.mma_sync = {}
        /\ DOMAIN mm.buf_name = {}
        /\ mm.frag_reg = {}
        /\ ~Ran("ScheduleAnalyser")
        /\ pc \in {"start", "target_ok", "device_ok", "done"}
        /\ pc = "done" => out[run] = GivenStmt

\* C4 witness: the matcher has walked the base program without its pragma,
\* whose store has the form C + cast(A) * cast(B), and the call has returned
C4_Witness ==
    /\ inp = MkInput([BaseInput EXCEPT !.pragma = FALSE])
    /\ NoPragma(stmt)
    /\ Ran("MMAMatcher")
    /\ pc = "done"
    /\ out[1] = inp.ir

\* the condition under which the analysis st qualifies: not invalid, constant
\* extents t_x and t_y recorded, t_y a positive multiple of 32 / t_x, and the
\* warp tile (t_x * m, (32 / t_x) * n, k) one of the five supported tiles
Qualifies(st) ==
    /\ ~st.invalid
    /\ Has(st.thread_extent, ThreadX)
    /\ Has(st.thread_extent, ThreadY)
    /\ st.thread_extent[ThreadX] \in 1..32
    /\ LET t_x == st.thread_extent[ThreadX]
           t_y == st.thread_extent[ThreadY]
           w == 32 \div t_x
       IN  /\ t_y >= w
           /\ t_y % w = 0
           /\ <<t_x * st.thread_tile.m, w * st.thread_tile.n, st.thread_tile.k>>
                 \in {<<16, 16, 16>>, <<8, 32, 16>>, <<32, 8, 16>>, <<8, 8, 32>>,
                      <<8, 8, 128>>}

\* the statement binds thread variable v to the constant extent e
BindsThread(v, e) ==
    \E i \in DOMAIN stmt :
        /\ stmt[i].kind = "attr"
        /\ stmt[i].key = "thread_extent"
        /\ stmt[i].node = v
        /\ stmt[i].value = IntImmE(e)

\* C5: QualifiedForTensorCore returns true exactly when the analysis
\* qualifies; for every other combination of thread extents and thread tile
\* it returns false without raising an error and the call returns the
\* statement it was given: so does the call on a statement with an MMA store
\* that binds threadIdx.x to 8 and threadIdx.y to 3.
C5_Qualification ==
    /\ (Len(stages) = 4) =>
          /\ pc \in {"qualified", "done"}
          /\ stages[4].ok <=> Qualifies(ba)
          /\ ~stages[4].ok => out[run] = GivenStmt
    /\ (Ended /\ mm.matched /\ BindsThread(ThreadX, 8) /\ BindsThread(ThreadY, 3))
       => (pc = "done" /\ out[run] = GivenStmt)

\* an expression with a cast to dtype d stripped; a cast to another dtype
\* leaves nothing
Stripped(e, d) ==
    IF e.kind # "cast" THEN e ELSE IF e.dtype = d THEN e.value ELSE NullExpr

\* the value v stored into a tensor of dtype d has the form
\* C + cast(A) * cast(B)
HasMMAForm(v, d) ==
    /\ v.kind = "add"
    /\ v.a.kind = "load"
    /\ Stripped(v.b, d).kind = "mul"
    /\ Stripped(Stripped(v.b, d).a, d).kind = "load"
    /\ Stripped(Stripped(v.b, d).b, d).kind = "load"

\* the stores of the statement whose value does not have that form
IllFormedStores ==
    {i \in DOMAIN stmt :
        /\ stmt[i].kind = "store"
        /\ ~HasMMAForm(stmt[i].value, inp.dtype[stmt[i].tensor])}

\* C6: once the matcher has walked a statement with matching active, it has
\* raised no error on a store whose value does not have the form
\* C + cast(A) * cast(B), such a store is in no entry of the MMA table or the
\* load-name map, and when no store has the form the fragment set is empty
\* and the matched flag is false.
C6_SilentSkip ==
    (Ran("MMAMatcher") /\ ~NoPragma(stmt)) =>
        /\ IllFormedStores # {} => mm.err = "none"
        /\ \A i \in IllFormedStores :
              /\ ~Has(mm.mma_sync, i)
              /\ ~Has(mm.buf_name, Ptr(i, "a"))
              /\ ~Has(mm.buf_name, Ptr(i, "b"))
        /\ (\A i \in DOMAIN stmt : stmt[i].kind = "store" => i \in IllFormedStores) =>
              /\ mm.frag_reg = {}
              /\ ~mm.matched

\* the bounds of the realize of tensor t in the statement the call was given
RealizeBounds(t) ==
    stmt[CHOOSE j \in DOMAIN stmt : stmt[j].kind = "realize" /\ stmt[j].tensor = t].bounds

\* the producer-loads of an expression, from left to right
RECURSIVE LoadsOf(_)
LoadsOf(e) ==
    IF e.kind = "load" THEN <<e>>
    ELSE IF e.kind = "cast" THEN LoadsOf(e.value)
    ELSE IF e.kind \in {"add", "mul"} THEN LoadsOf(e.a) \o LoadsOf(e.b)
    ELSE <<>>

ReadWith(t) ==
    LET mul == inp.schedule[1].body[1].source[1]
        idx == IF t = TA THEN mul.a.value.indices ELSE mul.b.value.indices
        name(e) == IF e.kind = "var" THEN e.name ELSE "no variable"
    IN <<name(idx[Len(idx) - 1]), name(idx[Len(idx)])>>

\* the output stage is C[i, j] = sum over k of cast(A[i, k]) * cast(B[j, k]),
\* with i, j its last two spatial axes in that order and k its reduction axis
ReadsIKandJK ==
    /\ inp.schedule[1].axis = <<"i", "j">>
    /\ inp.schedule[1].reduce_axis = <<"k">>
    /\ ReadWith(TA) = <<"i", "k">>
    /\ ReadWith(TB) = <<"j", "k">>

\* the entry of the role tables for a tensor name; <<"none", "none">> when
\* the tables have no entry for it
RoleEntry(st, name) ==
    IF Has(st.matrix_abc, name) /\ Has(st.matrix_major, name)
    THEN <<st.matrix_abc[name], st.matrix_major[name]>>
    ELSE <<"none", "none">>

\* C11 as stated: for the output stage C[i, j] = sum over k of
\* cast(A[i, k]) * cast(B[j, k]) the schedule analyser classifies A as
\* matrix_a row_major and B as matrix_b col_major.
C11_RowColExample_AsStated ==
    (Ran("ScheduleAnalyser") /\ ReadsIKandJK) =>
        /\ RoleEntry(sa, TA) = <<"matrix_a", "row_major">>
        /\ RoleEntry(sa, TB) = <<"matrix_b", "col_major">>

\* C11: for the output stage C[i, j] = sum over k of
\* cast(A[i, k]) * cast(B[j, k]), i and j the last two spatial axes in that
\* order, the schedule analyser classifies A, read with (i, k), as matrix_b
\* col_major and B, read with (j, k), as matrix_a row_major, and the output
\* stage as accumulator col_major.
C11_RowColExample ==
    (Ran("ScheduleAnalyser") /\ ReadsIKandJK) =>
        /\ RoleEntry(sa, TA) = <<"matrix_b", "col_major">>
        /\ RoleEntry(sa, TB) = <<"matrix_a", "row_major">>
        /\ RoleEntry(sa, TC) = <<"accumulator", "col_major">>

\* C11 witness: MatrixIdentify has filled the role table for that output
\* stage, with A classified matrix_b and B classified matrix_a
C11_Witness ==
    /\ ReadsIKandJK
    /\ Ran("ScheduleAnalyser")
    /\ RoleEntry(sa, TA) = <<"matrix_b", "col_major">>
    /\ RoleEntry(sa, TB) = <<"matrix_a", "row_major">>

\* the stores of the statement the call was given that write a fragment buffer
FragmentStores ==
    {i \in DOMAIN stmt : stmt[i].kind = "store" /\ stmt[i].tensor \in mm.frag_reg}

\* node is one buffer_bind_scope around a call of the intrinsic `name` whose
\* first five arguments are the data handle of tensor t, the warp tile
\* (M, N, K) and an elem_offset
OneBind(node, name, t) ==
    /\ node.kind = "bind"
    /\ Len(node.binds) = 1
    /\ node.binds[1].tensor = t
    /\ node.call.name = name
    /\ Len(node.call.args) >= 5
    /\ node.call.args[1] = ArgHandle(t)
    /\ <<node.call.args[2], node.call.args[3], node.call.args[4]>>
          = <<ArgInt(ba.warp_tile.m), ArgInt(ba.warp_tile.n), ArgInt(ba.warp_tile.k)>>
    /\ node.call.args[5].tag = "index"

\* what the rewrite of the fragment store at position i is to be
FragmentStoreRewritten(i) ==
    IF Has(sa.mma_sync, i) THEN IsMMACall(out[run][i])
    ELSE IF stmt[i].value.kind \in {"fimm", "iimm"} THEN
        /\ OneBind(out[run][i], "tvm_fill_fragment", stmt[i].tensor)
        /\ Len(out[run][i].call.args) = 6
        /\ out[run][i].call.args[6] = ArgValue(stmt[i].value)
    ELSE IF stmt[i].value.kind = "load" /\ stmt[i].value.tensor \notin mm.frag_reg THEN
        OneBind(out[run][i], "tvm_load_matrix_sync", stmt[i].tensor)
    ELSE out[run][i].kind = "bind" /\ Len(out[run][i].binds) = 1

\* C12: the pass does not abort, and every store into a fragment buffer is
\* rewritten: a matched MMA store into the mma intrinsic only; any other one
\* into exactly one buffer_bind_scope around one intrinsic,
\* tvm_fill_fragment(data, M, N, K, elem_offset, value) when its right-hand
\* side is an integer or float literal, tvm_load_matrix_sync when it is a
\* producer-load from a non-fragment buffer.
C12_FragmentLoad ==
    (Ended /\ FragmentStores # {}) =>
        /\ pc = "done"
        /\ \A i \in FragmentStores : FragmentStoreRewritten(i)

\* tensor t is declared with storage scope local, and the node at position s
\* lies inside the body of its producer-realize (its entry is not released)
LocalLive(t, s) ==
    /\ \E j \in DOMAIN stmt :
          /\ stmt[j].kind = "attr"
          /\ stmt[j].key = "realize_scope"
          /\ stmt[j].node = TensorObj(t)
          /\ stmt[j].value = StringImm(ScopeLocal)
    /\ \E j \in DOMAIN stmt :
          /\ stmt[j].kind = "realize"
          /\ stmt[j].tensor = t
          /\ j < s
          /\ s <= stmt[j].last

\* e, after stripping an optional cast to dtype d, is a load of a local,
\* unreleased buffer whose own dtype is one of the six input types
IsInputFactor(e, d, s) ==
    /\ Stripped(e, d).kind = "load"
    /\ LocalLive(Stripped(e, d).tensor, s)
    /\ inp.dtype[Stripped(e, d).tensor]
          \in {"float16", "int8", "uint8", "int4", "uint4", "int1"}

\* the conditions under which the store at position s may be recorded
MatchConditions(s) ==
    LET v == stmt[s].value
        d == inp.dtype[stmt[s].tensor]
    IN  /\ stmt[s].kind = "store"
        /\ v.kind = "add"
        /\ v.a.kind = "load"
        /\ v.a.tensor = stmt[s].tensor
        /\ LocalLive(v.a.tensor, s)
        /\ d \in {"float32", "int32"}
        /\ Stripped(v.b, d).kind = "mul"
        /\ IsInputFactor(Stripped(v.b, d).a, d, s)
        /\ IsInputFactor(Stripped(v.b, d).b, d, s)

\* C13: a producer-store is recorded as an MMA match only if its first
\* addend is a load of a local, unreleased buffer C of dtype float-32 or
\* int-32 that is the tensor it stores to, and each of the two factors, after
\* stripping an optional cast to C's dtype, is a load of a local, unreleased
\* buffer whose own dtype is one of float-16, int-8, uint-8, int-4, uint-4,
\* int-1; the second factor's buffer dtype is always in that set.
C13_MatchOnlyIf ==
    Ran("MMAMatcher") => \A s \in DOMAIN mm.mma_sync : MatchConditions(s)

\* the key with which the consistency pass looks up the buffer name of
\* operand k of the record the matcher made for store s
LookupKey(s, k) == AsNode(mm.mma_sync[s][k].expr, "call", mm.mma_sync[s][k].node)

\* C14: for every MMA record the matcher produced, the consistency pass of
\* MatrixIdentify finds, for each of the two input operands, the buffer name
\* the matcher recorded for that load expression: the lookup never misses,
\* and MatrixIdentify ends without a fault.
C14_OperandLookup ==
    Ran("ScheduleAnalyser") =>
        /\ sa.err = "none"
        /\ \A s \in DOMAIN mm.mma_sync : \A k \in 1..2 :
              /\ Has(mm.buf_name, LookupKey(s, k))
              /\ mm.buf_name[LookupKey(s, k)] = mm.buf_name[mm.mma_sync[s][k].node]

\* the node at position s lies inside the body of a pragma_tensor_core
\* attribute of the statement the call was given
InsidePragma(s) ==
    \E j \in DOMAIN stmt :
        /\ stmt[j].kind = "attr"
        /\ stmt[j].key = "pragma_tensor_core"
        /\ j < s
        /\ s <= stmt[j].last

\* C16: the matcher records only producer-stores that lie inside the body of
\* a pragma_tensor_core attribute: a store of the form
\* C = C + cast(A) * cast(B) visited after the body of the attribute has been
\* left is not recorded, and the matched flag is set only by a store inside
\* such a body.
C16_PragmaScope ==
    Ran("MMAMatcher") =>
        /\ \A s \in DOMAIN mm.mma_sync : InsidePragma(s)
        /\ mm.matched => \E s \in DOMAIN mm.mma_sync : InsidePragma(s)

\* the tensors of the buffer_bind_scope attributes of a rewritten store, from
\* the outermost to the innermost
BindTensors(node) == [k \in DOMAIN node.binds |-> node.binds[k].tensor]

\* the tensors of the operands A, B and C of the record of store s
RecordTensors(s) == [k \in 1..3 |-> mm.mma_sync[s][k].expr.tensor]

\* C17: a matched MMA store is rewritten into three nested buffer_bind_scope
\* attributes, from the outermost to the innermost those of C (the
\* accumulator), B and A, around one tvm_mma_sync / tvm_bmma_sync call.
C17_BindNest ==
    (Ended /\ DOMAIN mm.mma_sync # {}) =>
        /\ pc = "done"
        /\ \A s \in DOMAIN mm.mma_sync :
              /\ IsMMACall(out[run][s])
              /\ BindTensors(out[run][s])
                    = <<RecordTensors(s)[3], RecordTensors(s)[2], RecordTensors(s)[1]>>

\* the row of the role table for last two indices ij, with r the reduction
\* axis and x, y the second-to-last and last spatial axes; no entry when no
\* row applies
StatedRole(ij, x, y, r) ==
    IF ij = <<r, y>> THEN <<"matrix_a", "col_major">>
    ELSE IF ij = <<r, x>> THEN <<"matrix_b", "row_major">>
    ELSE IF ij = <<y, r>> THEN <<"matrix_a", "row_major">>
    ELSE IF ij = <<x, r>> THEN <<"matrix_b", "col_major">>
    ELSE <<"none", "none">>

\* C18: after MatrixIdentify every entry of the role tables has matrix_abc in
\* {matrix_a, matrix_b, accumulator} and matrix_major in {row_major,
\* col_major}; the entry of each input tensor of the reduction is the one the
\* table gives for its last two indices: (r, y) matrix_a col_major, (r, x)
\* matrix_b row_major, (y, r) matrix_a row_major, (x, r) matrix_b col_major;
\* the output stage is accumulator col_major; and a tensor whose last two
\* indices match no row has no entry.
C18_RoleTable ==
    Ran("ScheduleAnalyser") =>
        LET axis == inp.schedule[1].axis
            x == axis[Len(axis) - 1]
            y == axis[Len(axis)]
            r == inp.schedule[1].reduce_axis[1]
        IN  /\ DOMAIN sa.matrix_abc = DOMAIN sa.matrix_major
            /\ \A n \in DOMAIN sa.matrix_abc :
                  /\ sa.matrix_abc[n] \in {"matrix_a", "matrix_b", "accumulator"}
                  /\ sa.matrix_major[n] \in {"row_major", "col_major"}
            /\ \A t \in {TA, TB} : RoleEntry(sa, t) = StatedRole(ReadWith(t), x, y, r)
            /\ RoleEntry(sa, inp.schedule[1].name) = <<"accumulator", "col_major">>

\* the tensors the stores of the statement access: the tensor stored to and
\* the tensors loaded in the value
AccessedTensors ==
    UNION {{stmt[i].tensor} \cup {a.tensor : a \in Range(LoadsOf(stmt[i].value))}
             : i \in {j \in DOMAIN stmt : stmt[j].kind = "store"}}

\* the shape of tensor t: that of the caller's buffer, or the extents of its
\* producer-realize
ShapeOfTensor(t) ==
    IF t \in DOMAIN inp.extern THEN inp.extern[t].shape
    ELSE [d \in DOMAIN RealizeBounds(t) |-> RealizeBounds(t)[d].extent]

\* the last or the second-to-last dimension of the shape is not a constant
\* integer divisible by 16
BadShape(shape) ==
    \/ Len(shape) < 2
    \/ \E d \in {Len(shape) - 1, Len(shape)} : shape[d] < 0 \/ shape[d] % 16 # 0

\* C19: if a store or a load accesses a tensor that has a matrix role, a
\* fragment buffer in particular, whose last or second-to-last dimension is
\* not a constant divisible by 16, the buffer analyser sets its invalid flag,
\* the qualification fails and the call returns the statement it was given.
C19_ShapeCheck ==
    (/\ Ended
     /\ Ran("ScheduleAnalyser")
     /\ \E t \in AccessedTensors :
           /\ Has(sa.matrix_abc, t) \/ t \in mm.frag_reg
           /\ BadShape(ShapeOfTensor(t)))
    => (/\ pc = "done"
        /\ ba.invalid
        /\ ~Passed("QualifiedForTensorCore")
        /\ out[run] = GivenStmt)

\* the matcher's buffer table after its walk has visited the first n nodes of
\* the statement
MatcherTableAt(n, nd) ==
    MatcherWalk(SubSeq(stmt, 1, n), 1, MMAMatcherInit(inp.extern), inp.dtype,
                nd).buf_map

\* the buffer analyser's buffer table after its walk has visited the first n
\* nodes of the statement
AnalyserTableAt(n) ==
    AnalyserWalk(SubSeq(stmt, 1, n), 1, BufferAnalyserInit(inp.extern, sa, mm),
                 inp.dtype).buf_map

\* every released entry of table t1 is in table t2 as it is in t1
Frozen(t1, t2) ==
    \A t \in DOMAIN t1 : t1[t].released => (t \in DOMAIN t2 /\ t2[t] = t1[t])

\* node refers to tensor t: it stores to it, loads from it or realizes it
RefersTo(node, t) ==
    \/ node.kind \in {"store", "realize"} /\ node.tensor = t
    \/ /\ node.kind = "store"
       /\ \E a \in Range(LoadsOf(node.value)) : a.tensor = t

\* the nodes of the statement that refer to a tensor after the end of the
\* producer-realize that created its entry, that is, once it is released
LateReferences ==
    {i \in DOMAIN stmt :
        \E j \in 1..(i - 1) :
            /\ stmt[j].kind = "realize"
            /\ stmt[j].tensor \notin DOMAIN inp.extern
            /\ stmt[j].last < i
            /\ RefersTo(stmt[i], stmt[j].tensor)}

\* C21: in the matcher's and in the buffer analyser's buffer table an entry
\* that has released = true is never modified or replaced afterwards and
\* released never becomes false again; and a store, a load or a second
\* producer-realize that refers to the tensor after that is treated as an
\* error by the visitor that meets it, not ignored and not processed.
C21_ReleasedFinal ==
    /\ Ran("MMAMatcher") =>
          /\ \A nd \in NullDerefOutcomes : \A n \in 1..(Len(stmt) - 1) :
                Frozen(MatcherTableAt(n, nd), MatcherTableAt(n + 1, nd))
          /\ LateReferences # {} => mm.err = "check"
    /\ Ran("BufferAnalyser") =>
          /\ \A n \in 1..(Len(stmt) - 1) :
                Frozen(AnalyserTableAt(n), AnalyserTableAt(n + 1))
          /\ LateReferences # {} => ba.err = "check"

====
